---- MODULE Spec2Model ----
(***************************************************************************)
(* A model of the data-access layer of stock_dashboard                     *)
(* (src/stock_dashboard/data_access.py): the per-section TTL cache, the    *)
(* host-scoped rate-limit tracker and fetch_ticker_sections.               *)
(*                                                                         *)
(* Encoding of Python values.  A dict is a function whose domain is the    *)
(* set of its keys (EmptyMap is {}).  An Optional scalar is a sequence of  *)
(* length 0 (None) or 1.  A value whose dynamic type the code inspects is  *)
(* a record tagged with its type in field t.  Time is a whole number of    *)
(* seconds; a datetime later than DatetimeMax cannot be represented and    *)
(* the arithmetic producing it raises OverflowError.                       *)
(***************************************************************************)
EXTENDS Integers, Sequences, FiniteSets, TLC

VARIABLES
    now,                    \* the wall clock read by _utcnow()
    env,                    \* os.environ and the TTLs read from it at import
    CACHED_SECTIONS,        \* (ticker, section) -> [expires_at, payload]
    RATE_LIMIT_COOLDOWNS,   \* host -> resume_at, as a dict in insertion order
    last,                   \* what the call that just ended did and returned
    seen,                   \* per core section: the latest network read that a returned bundle reports
    VALIDATE_TICKER_CACHE,  \* normalized ticker tuple -> validated list
    CACHED_TICKER_CLIENTS   \* normalized ticker tuple -> shared client

vars == <<now, env, CACHED_SECTIONS, RATE_LIMIT_COOLDOWNS, last, seen,
          VALIDATE_TICKER_CACHE, CACHED_TICKER_CLIENTS>>

-----------------------------------------------------------------------------
(* Bounds of the model. *)

\* the clock stops advancing here
MaxNow == 3
\* the latest representable datetime (datetime.max), in seconds from the start
DatetimeMax == 100000

-----------------------------------------------------------------------------
(* Python values. *)

EmptyMap == <<>>
None == <<>>
Some(x) == <<x>>
IsNone(o) == Len(o) = 0
PyNone == [t |-> "none"]
PyBool(b) == [t |-> "bool", v |-> b]
PyDict(m) == [t |-> "dict", v |-> m]
PyList(s) == [t |-> "list", v |-> s]
PyStr(s) == [t |-> "str", v |-> s]
PyInt(n) == [t |-> "int", v |-> n]
\* a dict without key k
Without(m, k) == [j \in DOMAIN m \ {k} |-> m[j]]
\* dict.get(k, default)
Get(m, k, default) == IF k \in DOMAIN m THEN m[k] ELSE default
\* truthiness of an Optional int: None and 0 are falsy
Truthy(o) == ~IsNone(o) /\ o[1] # 0

_DEFAULT_RATE_LIMIT_SECONDS == 60
DefaultFundamentalTTL == 21600
DefaultPriceTTL == 300

Ticker == "AAPL"
CoreSections ==
    <<"summary_detail", "financial_data", "asset_profile", "key_stats", "quote_type", "price">>
requested_sections == CoreSections \o <<"buybacks">>
CoreSet == {CoreSections[i] : i \in DOMAIN CoreSections}

-----------------------------------------------------------------------------
(* Environment-driven configuration. *)

\* only the words true and yes switch smoke mode on
SmokeOnlyWhenTrue(e) == e.SMOKE_TEST \in {"true", "yes"}

is_smoke_mode(e) == e.SMOKE_TEST \notin {"", "0", "false", "no"}

\* YF_DISABLE_CACHE is not consulted
EnabledUnlessSmoke(e) == ~is_smoke_mode(e)

_cache_enabled(e) ==
    IF is_smoke_mode(e) THEN FALSE
    ELSE e.YF_DISABLE_CACHE \notin {"1", "true", "yes"}

\* every section is given the long TTL
OneTTLForAll(e, section) == e.fundamental_ttl

_section_ttl_seconds(e, section) ==
    IF section \in {"price", "summary_detail"} THEN e.price_ttl
    ELSE e.fundamental_ttl

\* timedelta(seconds=n) and datetime + timedelta raise OverflowError out of range
Overflows(t) == t > DatetimeMax \/ t < -DatetimeMax

-----------------------------------------------------------------------------
(* Section Cache. *)

\* an entry is served whatever its expiry, and never removed
EvictKeepingStale(cache, e, t, ticker, section) ==
    LET key == <<ticker, section>> IN
    IF ~_cache_enabled(e) \/ key \notin DOMAIN cache
    THEN [hit |-> FALSE, payload |-> EmptyMap, cache |-> cache]
    ELSE [hit |-> TRUE, payload |-> cache[key].payload, cache |-> cache]

\* _get_cached_section: the payload (hit) or None, and the cache it leaves
_get_cached_section(cache, e, t, ticker, section) ==
    LET key == <<ticker, section>> IN
    IF ~_cache_enabled(e) THEN [hit |-> FALSE, payload |-> EmptyMap, cache |-> cache]
    ELSE IF key \notin DOMAIN cache THEN [hit |-> FALSE, payload |-> EmptyMap, cache |-> cache]
    ELSE IF cache[key].expires_at > t
         THEN [hit |-> TRUE, payload |-> cache[key].payload, cache |-> cache]
         ELSE [hit |-> FALSE, payload |-> EmptyMap, cache |-> Without(cache, key)]

\* the entry is written as already expired
SetWithoutTTL(cache, e, t, ticker, section, payload) ==
    IF ~_cache_enabled(e) THEN cache
    ELSE (<<ticker, section>> :> [expires_at |-> t, payload |-> payload]) @@ cache

\* _set_cached_section: the cache after the write
_set_cached_section(cache, e, t, ticker, section, payload) ==
    IF ~_cache_enabled(e) THEN cache
    ELSE (<<ticker, section>> :>
            [expires_at |-> t + _section_ttl_seconds(e, section), payload |-> payload])
         @@ cache

-----------------------------------------------------------------------------
(* Rate-Limit Tracker.  The dict is a sequence of <<host, resume_at>> in   *)
(* insertion order; assigning an existing key keeps its position.          *)

Hosts(cd) == {cd[i][1] : i \in DOMAIN cd}
Cooldown(cd, host) == (CHOOSE i \in DOMAIN cd : cd[i][1] = host)
\* an existing cooldown is only ever extended
DictSetLater(cd, host, value) ==
    IF host \in Hosts(cd)
    THEN [i \in DOMAIN cd |->
            IF cd[i][1] = host /\ value > cd[i][2] THEN <<host, value>> ELSE cd[i]]
    ELSE Append(cd, <<host, value>>)
DictSet(cd, host, value) ==
    IF host \in Hosts(cd)
    THEN [i \in DOMAIN cd |-> IF cd[i][1] = host THEN <<host, value>> ELSE cd[i]]
    ELSE Append(cd, <<host, value>>)
ResumeAt(cd, host) == cd[Cooldown(cd, host)][2]

RateLimitError(status_code, message, retry_after, headers, host, payload, remaining) ==
    [status_code |-> status_code, message |-> message, retry_after |-> retry_after,
     headers |-> headers, host |-> host, payload |-> payload, remaining |-> remaining]

\* _record_rate_limit: raised, or the tracker and the record (remaining set) after it
_record_rate_limit(cd, t, rate_limit_error) ==
    LET retry_after == IF Truthy(rate_limit_error.retry_after)
                       THEN rate_limit_error.retry_after[1]
                       ELSE _DEFAULT_RATE_LIMIT_SECONDS
        host == IF IsNone(rate_limit_error.host) THEN "yahoo_finance"
                ELSE rate_limit_error.host[1]
        resume_at == t + retry_after
    IN  IF Overflows(retry_after) \/ Overflows(resume_at)
        THEN [raised |-> TRUE, cooldowns |-> cd, record |-> rate_limit_error]
        ELSE [raised |-> FALSE,
              cooldowns |-> DictSet(cd, host, resume_at),
              record |-> [rate_limit_error EXCEPT !.remaining = Some(retry_after)]]

Max(a, b) == IF a >= b THEN a ELSE b

\* the first host of the dict whose cooldown is in the future is chosen
FirstActive(cd, t, i, best) ==
    IF \E j \in DOMAIN cd : cd[j][2] > t
    THEN CHOOSE j \in DOMAIN cd : cd[j][2] > t /\ \A k \in 1..(j - 1) : cd[k][2] <= t
    ELSE 0

\* the loop of _active_rate_limit: the index of the chosen host after the first i items
RECURSIVE ActiveScan(_, _, _, _)
ActiveScan(cd, t, i, best) ==
    IF i > Len(cd) THEN best
    ELSE IF cd[i][2] > t /\ (best = 0 \/ cd[i][2] < cd[best][2])
         THEN ActiveScan(cd, t, i + 1, i)
         ELSE ActiveScan(cd, t, i + 1, best)

_active_rate_limit(cd, t) ==
    IF Len(cd) = 0 THEN None
    ELSE LET best == ActiveScan(cd, t, 1, 0) IN
         IF best = 0 THEN None
         ELSE LET remaining_seconds == Max(0, cd[best][2] - t) IN
              Some(RateLimitError(None, "Rate limit active", Some(remaining_seconds),
                                  EmptyMap, Some(cd[best][1]), PyNone,
                                  Some(remaining_seconds)))

-----------------------------------------------------------------------------
(* Error detail of a failed read.                                          *)
(* An exception is [message, status_code, response]; status_code is the    *)
(* exception's own attribute and response its Optional response object     *)
(* [truthy, status_code, headers, url, request_url, json, text].  A header *)
(* value is tagged: "int" (a string int() parses to v), "isodate" (a       *)
(* string fromisoformat parses to time v, timezone-aware or not) or "junk".*)
(* A url is modelled by the hostname urlparse finds in it.                 *)

LowerHeader(k) ==
    CASE k = "Retry-After" -> "retry-after"
      [] k = "RETRY-AFTER" -> "retry-after"
      [] OTHER -> k

_extract_host(response) ==
    IF IsNone(response) THEN None
    ELSE LET url == IF ~IsNone(response[1].url) THEN response[1].url
                    ELSE response[1].request_url
         IN url

_normalize_headers(headers) ==
    IF headers.t = "dict" THEN headers.v ELSE EmptyMap

\* int(payload value): the parsed seconds, or None on TypeError/ValueError
PayloadHint(payload) ==
    LET first == Get(payload.v, "retry_after", PyNone)
        retry_after == IF first.t = "int" /\ first.v # 0 THEN first
                       ELSE IF first.t \notin {"int", "none"} THEN first
                       ELSE Get(payload.v, "retryAfter", PyNone)
    IN  IF retry_after.t = "int" /\ retry_after.v # 0 THEN Some(retry_after.v)
        ELSE None

_parse_retry_after(headers, payload, t) ==
    LET keys == {k \in DOMAIN headers : LowerHeader(k) = "retry-after"} IN
    IF keys # {}
    THEN LET header_value == headers[CHOOSE k \in keys : TRUE] IN
         IF header_value.t = "int" THEN Some(header_value.v)
         ELSE IF header_value.t = "isodate" /\ header_value.aware
              THEN Some(Max(0, header_value.v - t))
              ELSE None
    ELSE IF payload.t = "dict" THEN PayloadHint(payload)
    ELSE None

IsRateLimited(status_code, retry_after) ==
    status_code \in {Some(429), Some(503)} \/ Truthy(retry_after)

_capture_error_details(exc, t) ==
    LET response == exc.response
        status_code == IF ~IsNone(response) /\ response[1].truthy /\ ~Truthy(exc.status_code)
                       THEN response[1].status_code
                       ELSE exc.status_code
        headers == IF IsNone(response) THEN EmptyMap
                   ELSE _normalize_headers(response[1].headers)
        payload == IF IsNone(response) THEN PyNone
                   ELSE IF response[1].json.t # "raises" THEN response[1].json
                   ELSE response[1].text
        host == _extract_host(response)
        retry_after == _parse_retry_after(headers, payload, t)
    IN  ("message" :> exc.message)
        @@ (IF ~IsNone(status_code) THEN "status_code" :> status_code[1] ELSE EmptyMap)
        @@ (IF DOMAIN headers # {} THEN "headers" :> headers ELSE EmptyMap)
        @@ (IF ~IsNone(host) THEN "host" :> host[1] ELSE EmptyMap)
        @@ (IF Truthy(retry_after) THEN "retry_after" :> retry_after[1] ELSE EmptyMap)
        @@ (IF IsRateLimited(status_code, retry_after)
            THEN "rate_limit" :> RateLimitError(status_code, exc.message, retry_after,
                                                headers, host, payload, retry_after)
            ELSE EmptyMap)

-----------------------------------------------------------------------------
(* Section Normalizer.  A provider section object is tagged with its       *)
(* shape: "DataFrame" (index: the row labels, rows: the rows as dicts),    *)
(* "Series" (name, data), "dict" (v: key -> tagged value) or anything else.*)

\* a message or a list under the ticker key is returned like a mapping
ValueUnchecked(section, ticker) ==
    IF section.t = "DataFrame"
    THEN LET at == {i \in DOMAIN section.index : section.index[i] = ticker} IN
         IF Cardinality(at) = 1 THEN section.rows[CHOOSE i \in at : TRUE]
         ELSE EmptyMap
    ELSE IF section.t = "Series"
    THEN IF section.name = ticker THEN section.data ELSE EmptyMap
    ELSE IF section.t = "dict"
    THEN LET value == Get(section.v, ticker, PyDict(EmptyMap)) IN
         IF value.t \in {"dict", "str", "list"} THEN value.v ELSE EmptyMap
    ELSE EmptyMap

_safe_section(section, ticker) ==
    IF section.t = "DataFrame"
    THEN LET at == {i \in DOMAIN section.index : section.index[i] = ticker} IN
         IF Cardinality(at) = 1 THEN section.rows[CHOOSE i \in at : TRUE]
         ELSE EmptyMap
    ELSE IF section.t = "Series"
    THEN IF section.name = ticker THEN section.data ELSE EmptyMap
    ELSE IF section.t = "dict"
    THEN LET value == Get(section.v, ticker, PyDict(EmptyMap)) IN
         IF value.t = "dict" THEN value.v ELSE EmptyMap
    ELSE EmptyMap

\* the share counts are compared whatever the history read gave
DetectWithoutHistory(history, key_stats) ==
    LET share_counts == Get(key_stats, "sharesOutstanding", PyNone) IN
    IF share_counts.t = "list" /\ Len(share_counts.v) > 1
    THEN PyBool(share_counts.v[Len(share_counts.v)] < share_counts.v[1])
    ELSE PyNone

\* _detect_buybacks; history is what ticker_client.history(period="5y") does
_detect_buybacks(history, key_stats) ==
    IF history.t = "raises" THEN PyNone
    ELSE IF ~history.empty /\ "close" \in history.columns
    THEN LET share_counts == Get(key_stats, "sharesOutstanding", PyNone) IN
         IF share_counts.t = "list" /\ Len(share_counts.v) > 1
         THEN PyBool(share_counts.v[Len(share_counts.v)] < share_counts.v[1])
         ELSE PyNone
    ELSE PyNone

-----------------------------------------------------------------------------
(* fetch_ticker_sections.                                                  *)

\* lines 403-407: the cache lookups, in order; cached_sections and the cache left
RECURSIVE LookupAll(_, _, _, _, _)
LookupAll(i, cache, cached_sections, e, t) ==
    IF i > Len(requested_sections)
    THEN [cache |-> cache, cached_sections |-> cached_sections]
    ELSE LET got == _get_cached_section(cache, e, t, Ticker, requested_sections[i]) IN
         LookupAll(i + 1, got.cache,
                   IF got.hit THEN (requested_sections[i] :> got.payload) @@ cached_sections
                   ELSE cached_sections,
                   e, t)

\* lines 416-468: the demonstration bundle of smoke mode (floats kept as literals)
SmokeBundle(ticker, cached_sections, cache_hits) ==
    [summary_detail |-> Get(cached_sections, "summary_detail",
        [trailingPE |-> "15.0", priceToBook |-> "2.1",
         priceToSalesTrailing12Months |-> "4.2", dividendYield |-> "0.012",
         pegRatio |-> "1.3"]),
     financial_data |-> Get(cached_sections, "financial_data",
        [profitMargins |-> "0.22", returnOnEquity |-> "0.17", currentRatio |-> "2.1",
         quickRatio |-> "1.6", revenueGrowth |-> "0.07", earningsGrowth |-> "0.06",
         operatingMargins |-> "0.14", debtToEquity |-> "42.0", freeCashflow |-> "3.2e10",
         operatingCashflow |-> "4.5e10", totalRevenue |-> "2.4e11", totalDebt |-> "5.5e10"]),
     asset_profile |-> Get(cached_sections, "asset_profile",
        [industry |-> "Demo Software", sector |-> "Technology"]),
     key_stats |-> Get(cached_sections, "key_stats",
        [marketCap |-> "1.6e12", sharesOutstanding |-> "1.6e10", revenuePerShare |-> "14.5",
         enterpriseToEbitda |-> "14.0", heldPercentInsiders |-> "0.08"]),
     quote_type |-> Get(cached_sections, "quote_type",
        [symbol |-> ticker, longName |-> <<ticker, " Demo Corp">>]),
     price |-> Get(cached_sections, "price", [shortName |-> <<ticker, " Demo">>]),
     buybacks |-> IF "buybacks" \in DOMAIN cached_sections
                  THEN PyDict(cached_sections["buybacks"])
                  ELSE PyBool(TRUE),
     cache_info |-> [sections_cached |-> cache_hits]]

\* the bundle of the two early returns (lines 498-511 and 605-619)
EarlyBundle(sections, error, cache_info) ==
    [summary_detail |-> Get(sections, "summary_detail", EmptyMap),
     financial_data |-> Get(sections, "financial_data", EmptyMap),
     asset_profile |-> Get(sections, "asset_profile", EmptyMap),
     key_stats |-> Get(sections, "key_stats", EmptyMap),
     quote_type |-> Get(sections, "quote_type", EmptyMap),
     price |-> Get(sections, "price", EmptyMap),
     buybacks |-> IF "buybacks" \in DOMAIN sections THEN PyDict(sections["buybacks"])
                  ELSE PyNone,
     error |-> error,
     cache_info |-> cache_info]

\* a failed read's details after `if rate_limit := details.get("rate_limit")`:
\* raised, the tracker, and the details (their rate_limit record is the one recorded)
RecordIfRateLimited(details, cd, t) ==
    IF "rate_limit" \in DOMAIN details
    THEN LET r == _record_rate_limit(cd, t, details["rate_limit"]) IN
         [raised |-> r.raised, cooldowns |-> r.cooldowns,
          details |-> ("rate_limit" :> r.record) @@ details]
    ELSE [raised |-> FALSE, cooldowns |-> cd, details |-> details]

\* _fetch_section (lines 573-581); read is what getattr(client, attr_name) does
_fetch_section(read, ticker, cd, t) ==
    IF read.t = "raises"
    THEN LET r == RecordIfRateLimited(_capture_error_details(read.exc, t), cd, t) IN
         [raised |-> r.raised, section |-> EmptyMap, details |-> r.details,
          cooldowns |-> r.cooldowns]
    ELSE [raised |-> FALSE, section |-> _safe_section(read.section, ticker),
          details |-> EmptyMap, cooldowns |-> cd]

\* lines 621-636: the reads of the missing core sections, in order.  st is
\* [raised, sections, cache, cooldowns, error_info, reads, failed]
\* the latest failure replaces the error kept so far
LatestError(error_info, section_error) ==
    IF DOMAIN section_error # {} THEN section_error ELSE error_info

FirstError(error_info, section_error) ==
    IF DOMAIN section_error # {} /\ DOMAIN error_info = {} THEN section_error
    ELSE error_info

RECURSIVE ReadSections(_, _, _, _, _)
ReadSections(i, st, up, e, t) ==
    IF i > Len(CoreSections) \/ st.raised THEN st
    ELSE LET key == CoreSections[i] IN
         IF key \in DOMAIN st.sections THEN ReadSections(i + 1, st, up, e, t)
         ELSE LET got == _fetch_section(up.reads[key], Ticker, st.cooldowns, t) IN
              IF got.raised
              THEN [st EXCEPT !.raised = TRUE, !.reads = Append(@, key),
                              !.failed = Append(@, <<key, up.reads[key].exc>>)]
              ELSE ReadSections(i + 1,
                     [raised |-> FALSE,
                      sections |-> (key :> got.section) @@ st.sections,
                      cache |-> _set_cached_section(st.cache, e, t, Ticker, key, got.section),
                      cooldowns |-> got.cooldowns,
                      error_info |-> FirstError(st.error_info, got.details),
                      reads |-> Append(st.reads, key),
                      failed |-> IF up.reads[key].t = "raises"
                                 THEN Append(st.failed, <<key, up.reads[key].exc>>)
                                 ELSE st.failed],
                     up, e, t)

\* what a call did: its outcome, the state it leaves, and its network activity
\* (reads: the sections read, in order; failed: <<section, exception>> of the
\* reads that raised)
Raised(cache, cd, constructed, reads, failed, history_read) ==
    [outcome |-> "raised", bundle |-> EmptyMap, cache |-> cache, cooldowns |-> cd,
     client_constructed |-> constructed, reads |-> reads, failed |-> failed,
     history_read |-> history_read, elapsed |-> 0]

Returned(bundle, cache, cd, constructed, reads, failed, history_read, elapsed) ==
    [outcome |-> "returned", bundle |-> bundle, cache |-> cache, cooldowns |-> cd,
     client_constructed |-> constructed, reads |-> reads, failed |-> failed,
     history_read |-> history_read, elapsed |-> elapsed]

\* lines 641-673: buybacks from the cache or derived, and the final bundle
Compose(st, details, cd, needs_network, constructs, cache_hits, e, t, up) ==
    IF "buybacks" \in DOMAIN st.sections
    THEN Returned(
          [summary_detail |-> st.sections["summary_detail"],
           financial_data |-> st.sections["financial_data"],
           asset_profile |-> st.sections["asset_profile"],
           key_stats |-> st.sections["key_stats"],
           quote_type |-> st.sections["quote_type"],
           price |-> st.sections["price"],
           buybacks |-> st.sections["buybacks"]["value"],
           error |-> details,
           cache_info |-> [sections_cached |-> cache_hits,
                           served_from_cache |-> ~needs_network,
                           cache_disabled |-> ~_cache_enabled(e)]],
          st.cache, cd, constructs, st.reads, st.failed, FALSE, 0)
    ELSE Returned(
          [summary_detail |-> st.sections["summary_detail"],
           financial_data |-> st.sections["financial_data"],
           asset_profile |-> st.sections["asset_profile"],
           key_stats |-> st.sections["key_stats"],
           quote_type |-> st.sections["quote_type"],
           price |-> st.sections["price"],
           buybacks |-> _detect_buybacks(up.history, Get(st.sections, "key_stats", EmptyMap)),
           error |-> details,
           cache_info |-> [sections_cached |-> cache_hits,
                           served_from_cache |-> ~needs_network,
                           cache_disabled |-> ~_cache_enabled(e)]],
          _set_cached_section(st.cache, e, t + up.elapsed, Ticker, "buybacks",
              "value" :> _detect_buybacks(up.history, Get(st.sections, "key_stats", EmptyMap))),
          cd, constructs, st.reads, st.failed, TRUE, up.elapsed)

\* lines 638-639: the first error's rate limit is recorded once more
AfterReads(st, again, needs_network, constructs, cache_hits, e, t, up) ==
    IF st.raised \/ again.raised
    THEN Raised(st.cache, st.cooldowns, constructs, st.reads, st.failed, FALSE)
    ELSE Compose(st, again.details, again.cooldowns, needs_network, constructs,
                 cache_hits, e, t, up)

RereadError(st, t) == RecordIfRateLimited(st.error_info, st.cooldowns, t)

\* lines 621-636, then the rest
ReadAndCompose(st, needs_network, constructs, cache_hits, e, t, up) ==
    AfterReads(st, RereadError(st, t), needs_network, constructs, cache_hits, e, t, up)

\* lines 594-619: the client constructor raised; r is its recorded error detail
ClientFailed(looked, r, missing_sections, cache_hits, cd, e) ==
    IF r.raised THEN Raised(looked.cache, cd, TRUE, <<>>, <<>>, FALSE)
    ELSE Returned(
           EarlyBundle(looked.cached_sections, r.details,
               [sections_cached |-> cache_hits,
                served_from_cache |-> (missing_sections = <<>>),
                cache_disabled |-> ~_cache_enabled(e)]),
           looked.cache, r.cooldowns, TRUE, <<>>, <<>>, FALSE, 0)

\* lines 583-673, entered when the call is not short-circuited
FetchOverNetwork(looked, missing_sections, needs_network, cache_hits, cd, e, t, given_client, up) ==
    IF needs_network /\ ~given_client /\ up.ctor.t = "raises"
    THEN ClientFailed(looked,
                      RecordIfRateLimited(_capture_error_details(up.ctor.exc, t), cd, t),
                      missing_sections, cache_hits, cd, e)
    ELSE ReadAndCompose(
           ReadSections(1,
                [raised |-> FALSE, sections |-> looked.cached_sections,
                 cache |-> looked.cache, cooldowns |-> cd, error_info |-> EmptyMap,
                 reads |-> <<>>, failed |-> <<>>],
                up, e, t),
           needs_network, needs_network /\ ~given_client, cache_hits, e, t, up)

\* the cooldown stops the call only when nothing is missing
ShortCircuitsWhenComplete(active_limit, missing_sections) ==
    ~IsNone(active_limit) /\ missing_sections = <<>>

ShortCircuits(active_limit, missing_sections) ==
    ~IsNone(active_limit) /\ missing_sections # <<>>

\* line 586
NeedsNetwork(missing_sections, sections) ==
    missing_sections # <<>> \/ "buybacks" \notin DOMAIN sections

\* lines 480-521, then the rest
AfterLookup(looked, missing_sections, active_limit, cache_hits, cd, e, t, given_client, up) ==
    IF is_smoke_mode(e)
    THEN Returned(SmokeBundle(Ticker, looked.cached_sections, cache_hits),
                  looked.cache, cd, FALSE, <<>>, <<>>, FALSE, 0)
    ELSE IF ShortCircuits(active_limit, missing_sections)
    THEN Returned(
           EarlyBundle(looked.cached_sections,
               [message |-> active_limit[1].message, rate_limit |-> active_limit[1]],
               [sections_cached |-> cache_hits,
                served_from_cache |-> (cache_hits # {} /\ missing_sections = <<>>)]),
           looked.cache, cd, FALSE, <<>>, <<>>, FALSE, 0)
    ELSE FetchOverNetwork(looked, missing_sections,
                          NeedsNetwork(missing_sections, looked.cached_sections),
                          cache_hits, cd, e, t, given_client, up)

\* lines 480-494
Missing(cached_sections) ==
    SelectSeq(CoreSections, LAMBDA x : x \notin DOMAIN cached_sections)

Looked(looked, cd, e, t, given_client, up) ==
    AfterLookup(looked, Missing(looked.cached_sections), _active_rate_limit(cd, t),
                DOMAIN looked.cached_sections, cd, e, t, given_client, up)

fetch_ticker_sections(cache0, cd, e, t, given_client, up) ==
    Looked(LookupAll(1, cache0, EmptyMap, e, t), cd, e, t, given_client, up)

-----------------------------------------------------------------------------
(* Ticker Validator and the shared-client pool.  A ticker is a string; the *)
(* strings that occur are listed in RawTickers.  The provider client is    *)
(* [ctor, quote_type, symbols]: what constructing ticker_cls(normalized)   *)
(* does, and what reading each of the two attributes does ("ok" with the   *)
(* value, "missing" when the client has no such attribute, or "raises").   *)
(* The values of the fields symbol and underlyingSymbol are strings.       *)

\* str.upper()
Upper(x) ==
    CASE x = "aapl" -> "AAPL"
      [] x = "kko" -> "KKO"
      [] OTHER -> x

Elements(seq) == {seq[i] : i \in DOMAIN seq}

\* lines 106-114: the loop that builds `normalized`
RECURSIVE NormalizeFrom(_, _, _)
NormalizeFrom(tickers, i, normalized) ==
    IF i > Len(tickers) THEN normalized
    ELSE IF tickers[i] = "" THEN NormalizeFrom(tickers, i + 1, normalized)
    ELSE IF Upper(tickers[i]) \in Elements(normalized)
         THEN NormalizeFrom(tickers, i + 1, normalized)
         ELSE NormalizeFrom(tickers, i + 1, Append(normalized, Upper(tickers[i])))

Normalized(tickers) == NormalizeFrom(tickers, 1, <<>>)

\* lines 135-137
AvailableSymbols(symbols_attr) ==
    IF symbols_attr.t = "list" THEN [i \in DOMAIN symbols_attr.v |-> Upper(symbols_attr.v[i])]
    ELSE <<>>

\* the symbol is appended without looking at what was added before
AddUnchecked(validated, symbol) == Append(validated, Upper(symbol))

\* a new symbol is put in front of the list
AddInFront(validated, symbol) ==
    IF Upper(symbol) \in Elements(validated) THEN validated
    ELSE <<Upper(symbol)>> \o validated

\* _add_symbol (lines 142-146): the validated list after the call
_add_symbol(validated, symbol) ==
    IF Upper(symbol) \in Elements(validated) THEN validated
    ELSE Append(validated, Upper(symbol))

\* the field is not looked at
IgnoreField(section, key, default) == default

\* section.get(key) when it is truthy, else default
FieldOr(section, key, default) ==
    IF key \in DOMAIN section /\ section[key].t = "str" /\ section[key].v # ""
    THEN section[key].v
    ELSE default

\* lines 148-158: the loop over `normalized`
RECURSIVE ConfirmFrom(_, _, _, _, _)
ConfirmFrom(normalized, i, quote_type_section, available_symbols, validated) ==
    IF i > Len(normalized) THEN validated
    ELSE LET ticker == normalized[i]
             section == _safe_section(quote_type_section, ticker)
         IN  ConfirmFrom(normalized, i + 1, quote_type_section, available_symbols,
                 IF DOMAIN section # {}
                 THEN _add_symbol(validated,
                          FieldOr(section, "symbol",
                                  FieldOr(section, "underlyingSymbol", ticker)))
                 ELSE IF ticker \in Elements(available_symbols)
                 THEN _add_symbol(validated, ticker)
                 ELSE validated)

\* only advertised symbols of the requested batch are appended
FillBatchOnly(available_symbols, i, normalized, validated) ==
    validated \o SelectSeq(available_symbols,
                           LAMBDA symbol : /\ symbol \in Elements(normalized)
                                           /\ symbol \notin Elements(validated))

\* lines 161-165: the loop over `available_symbols`
RECURSIVE FillFrom(_, _, _, _)
FillFrom(available_symbols, i, normalized, validated) ==
    IF i > Len(available_symbols) THEN validated
    ELSE LET symbol == available_symbols[i] IN
         FillFrom(available_symbols, i + 1, normalized,
             IF /\ symbol \notin Elements(validated)
                /\ (symbol \in Elements(normalized) \/ validated = <<>>)
             THEN _add_symbol(validated, symbol)
             ELSE validated)

\* every typed symbol is kept, whatever the provider answered
KeepAllTyped(normalized, quote_type_section, available_symbols) == normalized

\* lines 139-165
Validated(normalized, quote_type_section, available_symbols) ==
    LET validated == ConfirmFrom(normalized, 1, quote_type_section, available_symbols, <<>>)
    IN  IF available_symbols # <<>> /\ Len(validated) < Len(available_symbols)
        THEN FillFrom(available_symbols, 1, normalized, validated)
        ELSE validated

\* getattr(ticker_client, name, default)
GetAttr(read, default) == IF read.t = "missing" THEN default ELSE read.value

\* what validate_tickers returns and leaves: the list, VALIDATE_TICKER_CACHE,
\* whether a client was constructed (or its construction attempted) and the
\* attributes read from it
Validation(result, vcache, normalized, constructed, attrs, from_cache) ==
    [result |-> result, vcache |-> vcache, normalized |-> normalized,
     constructed |-> constructed, attrs |-> attrs, from_cache |-> from_cache]

\* the normalized list is dropped when the provider fails
FailClosed(vcache, normalized, attrs) ==
    Validation(<<>>, vcache, normalized, TRUE, attrs, FALSE)

\* the list returned after a provider error is remembered for the batch
StoresFailOpen(vcache, normalized, attrs) ==
    Validation(normalized, (normalized :> normalized) @@ vcache, normalized, TRUE, attrs,
               FALSE)

\* lines 132-133: `except Exception: return normalized`, after reading attrs
OnProviderError(vcache, normalized, attrs) ==
    Validation(normalized, vcache, normalized, TRUE, attrs, FALSE)

\* the list remembered for the next call is the normalized one
RemembersNormalized(vcache, e, normalized, provider) ==
    IF provider.ctor.t = "raises" \/ provider.quote_type.t = "raises"
       \/ provider.symbols.t = "raises"
    THEN Validation(normalized, vcache, normalized, TRUE, <<>>, FALSE)
    ELSE Validation(Validated(normalized,
                              GetAttr(provider.quote_type, [t |-> "dict", v |-> EmptyMap]),
                              AvailableSymbols(GetAttr(provider.symbols, PyList(<<>>)))),
                    IF _cache_enabled(e) THEN (normalized :> normalized) @@ vcache
                    ELSE vcache,
                    normalized, TRUE, <<"quote_type", "symbols">>, FALSE)

\* lines 128-170, from the construction of the client on
ConfirmWithProvider(vcache, e, normalized, provider) ==
    IF provider.ctor.t = "raises"
    THEN OnProviderError(vcache, normalized, <<>>)
    ELSE IF provider.quote_type.t = "raises"
    THEN OnProviderError(vcache, normalized, <<"quote_type">>)
    ELSE IF provider.symbols.t = "raises"
    THEN OnProviderError(vcache, normalized, <<"quote_type", "symbols">>)
    ELSE LET validated ==
                 Validated(normalized,
                           GetAttr(provider.quote_type, [t |-> "dict", v |-> EmptyMap]),
                           AvailableSymbols(GetAttr(provider.symbols, PyList(<<>>))))
         IN  Validation(validated,
                        IF _cache_enabled(e) THEN (normalized :> validated) @@ vcache
                        ELSE vcache,
                        normalized, TRUE, <<"quote_type", "symbols">>, FALSE)

validate_tickers(vcache, e, tickers, provider) ==
    LET normalized == Normalized(tickers) IN
    IF normalized = <<>> THEN Validation(<<>>, vcache, normalized, FALSE, <<>>, FALSE)
    ELSE IF is_smoke_mode(e)
    THEN Validation(normalized, vcache, normalized, FALSE, <<>>, FALSE)
    ELSE IF _cache_enabled(e) /\ normalized \in DOMAIN vcache
    THEN Validation(vcache[normalized], vcache, normalized, FALSE, <<>>, TRUE)
    ELSE ConfirmWithProvider(vcache, e, normalized, provider)

\* get_batched_ticker_client: the client returned (or None), the pool, and
\* whether a client was constructed (or its construction attempted)
get_batched_ticker_client(pool, e, tickers, provider) ==
    LET normalized == Normalized(tickers) IN
    IF is_smoke_mode(e) \/ normalized = <<>>
    THEN [client |-> None, pool |-> pool, constructed |-> FALSE]
    ELSE IF normalized \in DOMAIN pool
    THEN [client |-> Some(pool[normalized]), pool |-> pool, constructed |-> FALSE]
    ELSE IF provider.ctor.t = "raises"
    THEN [client |-> None, pool |-> pool, constructed |-> TRUE]
    ELSE [client |-> Some([symbols |-> normalized]),
          pool |-> (normalized :> [symbols |-> normalized]) @@ pool,
          constructed |-> TRUE]

-----------------------------------------------------------------------------
(* The upstream provider: what one call of fetch_ticker_sections meets.    *)

Response(truthy, status_code, headers, url, json, text) ==
    [truthy |-> truthy, status_code |-> status_code, headers |-> headers, url |-> url,
     request_url |-> None, json |-> json, text |-> text]
HeaderInt(n) == [t |-> "int", v |-> n]
NoJson == [t |-> "raises"]
QueryHost == "query1.finance.yahoo.com"

\* a retry hint too large for datetime arithmetic
HugeSeconds == DatetimeMax + 1

ExcPlain == [message |-> "connection reset", status_code |-> None, response |-> None]
Exc429 ==
    [message |-> "Too many requests", status_code |-> None,
     response |-> Some(Response(TRUE, Some(429), PyDict("Retry-After" :> HeaderInt(2)),
                                Some(QueryHost),
                                PyDict(("message" :> PyStr("Too many requests"))
                                       @@ ("retry_after" :> PyInt(2))),
                                None))]
Exc503 ==
    [message |-> "API unavailable", status_code |-> None,
     response |-> Some(Response(TRUE, Some(503), PyDict(EmptyMap), None, NoJson, PyNone))]
Exc500 ==
    [message |-> "Internal error", status_code |-> None,
     response |-> Some(Response(TRUE, Some(500), PyDict(EmptyMap), None, NoJson, PyNone))]
ExcNegative ==
    [message |-> "Too many requests", status_code |-> None,
     response |-> Some(Response(TRUE, Some(429), PyDict("Retry-After" :> HeaderInt(-1)),
                                Some(QueryHost), NoJson, PyNone))]
ExcHuge ==
    [message |-> "Too many requests", status_code |-> None,
     response |-> Some(Response(TRUE, Some(429),
                                PyDict("Retry-After" :> HeaderInt(HugeSeconds)),
                                Some(QueryHost), NoJson, PyNone))]
ExcHint ==
    [message |-> "Slow down", status_code |-> None,
     response |-> Some(Response(TRUE, Some(500), PyDict(EmptyMap), None,
                                PyDict("retryAfter" :> PyInt(1)), PyNone))]
\* what a section read may raise, and what the client constructor may raise
Failures == <<Exc429, Exc503, Exc500, ExcNegative, ExcHuge>>
CtorFailures == <<ExcPlain, Exc429, ExcHint, ExcHuge>>
\* the sections whose read may differ from the others' in one call
Deviating == {"price", "key_stats"}

DataA == ("sharesOutstanding" :> PyList(<<5, 4>>)) @@ ("trailingPE" :> PyInt(30))
DataB == ("sharesOutstanding" :> PyList(<<4, 5>>)) @@ ("trailingPE" :> PyInt(31))
Ok(section) == [t |-> "ok", section |-> section]
Raises(exc) == [t |-> "raises", exc |-> exc]
ReadA == Ok([t |-> "dict", v |-> (Ticker :> PyDict(DataA)) @@ ("MSFT" :> PyDict(DataB))])
ReadB == Ok([t |-> "DataFrame", index |-> <<Ticker, "MSFT">>, rows |-> <<DataB, DataA>>])
ReadText == Ok([t |-> "dict", v |-> (Ticker :> PyStr("No fundamentals data found"))])
Reads == <<ReadB, ReadText>> \o [i \in DOMAIN Failures |-> Raises(Failures[i])]

HistoryOk == [t |-> "ok", empty |-> FALSE, columns |-> {"close", "volume"}]
HistoryEmpty == [t |-> "ok", empty |-> TRUE, columns |-> {}]
HistoryRaises == [t |-> "raises"]
HistoryNoClose == [t |-> "ok", empty |-> FALSE, columns |-> {"volume"}]
Histories == <<HistoryOk, HistoryEmpty, HistoryRaises, HistoryNoClose>>

\* the whole seconds a price-history read may take
HistoryDelays == {0, 1}

AllA == [x \in CoreSet |-> ReadA]
ClientOk == [t |-> "ok"]
Upstream(ctor, reads, history, elapsed) ==
    [ctor |-> ctor, reads |-> reads, history |-> history, elapsed |-> elapsed]

-----------------------------------------------------------------------------
(* The state machine. *)

Env(smoke, disable, price_ttl, fundamental_ttl) ==
    [SMOKE_TEST |-> smoke, YF_DISABLE_CACHE |-> disable,
     price_ttl |-> price_ttl, fundamental_ttl |-> fundamental_ttl]

\* the configurations a process may start with: the defaults, smoke mode,
\* caching disabled, and short TTLs (YF_PRICE_TTL_SECONDS, YF_FUNDAMENTAL_TTL_SECONDS)
Environments ==
    <<Env("", "", DefaultPriceTTL, DefaultFundamentalTTL),
      Env("1", "", DefaultPriceTTL, DefaultFundamentalTTL),
      Env("", "1", DefaultPriceTTL, DefaultFundamentalTTL),
      Env("", "", 2, 2)>>

Init ==
    /\ now = 0
    /\ \E c \in DOMAIN Environments : env = Environments[c]
    /\ CACHED_SECTIONS = EmptyMap
    /\ RATE_LIMIT_COOLDOWNS = <<>>
    /\ last = [op |-> "idle"]
    /\ seen = EmptyMap
    /\ VALIDATE_TICKER_CACHE = EmptyMap
    /\ CACHED_TICKER_CLIENTS = EmptyMap

\* no call is in progress and the last result has been taken by the caller
Idle == last.op = "idle"

\* time passes between calls
Tick ==
    /\ Idle
    /\ now < MaxNow
    /\ now' = now + 1
    /\ UNCHANGED <<env, CACHED_SECTIONS, RATE_LIMIT_COOLDOWNS, last, seen,
                 VALIDATE_TICKER_CACHE, CACHED_TICKER_CLIENTS>>

\* the caller takes the result (or the exception) of the call that just ended
Consume ==
    /\ ~Idle
    /\ last' = [op |-> "idle"]
    /\ UNCHANGED <<now, env, CACHED_SECTIONS, RATE_LIMIT_COOLDOWNS, seen,
                 VALIDATE_TICKER_CACHE, CACHED_TICKER_CLIENTS>>

\* one call fetch_ticker_sections(Ticker, ticker_client=...) against upstream up;
\* note is what else is remembered of the upstream the call met
CallNoting(given_client, up, note) ==
    \E r \in {fetch_ticker_sections(CACHED_SECTIONS, RATE_LIMIT_COOLDOWNS, env, now,
                                    given_client, up)} :
        /\ now + r.elapsed <= MaxNow
        /\ now' = now + r.elapsed
        /\ CACHED_SECTIONS' = r.cache
        /\ RATE_LIMIT_COOLDOWNS' = r.cooldowns
        /\ last' = note @@
                   [op |-> "fetch", at |-> now, given_client |-> given_client,
                    outcome |-> r.outcome, bundle |-> r.bundle,
                    client_constructed |-> r.client_constructed,
                    reads |-> r.reads, failed |-> r.failed,
                    history_read |-> r.history_read]
        /\ seen' = IF r.outcome = "returned"
                   THEN [x \in {r.reads[i] : i \in DOMAIN r.reads} |->
                            [at |-> now, content |-> r.bundle[x]]] @@ seen
                   ELSE seen
        /\ UNCHANGED <<env, VALIDATE_TICKER_CACHE, CACHED_TICKER_CLIENTS>>

Call(given_client, up) == CallNoting(given_client, up, EmptyMap)

\* every section answers; the history read may be slow
Fetch ==
    /\ Idle
    /\ \E elapsed \in HistoryDelays :
        Call(FALSE, Upstream(ClientOk, AllA, HistoryOk, elapsed))

\* the caller passes a shared client (ticker_client)
FetchWithClient ==
    /\ Idle
    /\ Call(TRUE, Upstream(ClientOk, AllA, HistoryOk, 0))

\* the price history is empty or its read raises
FetchNoHistory ==
    /\ Idle
    /\ \E h \in {2, 3} :
        Call(FALSE, Upstream(ClientOk, AllA, Histories[h], 0))

\* one section answers differently or fails
FetchOneDeviation ==
    /\ Idle
    /\ \E x \in Deviating, d \in DOMAIN Reads :
        Call(FALSE, Upstream(ClientOk, [AllA EXCEPT ![x] = Reads[d]], HistoryOk, 0))

\* the client constructor raises
FetchClientFails ==
    /\ Idle
    /\ \E f \in DOMAIN CtorFailures :
        CallNoting(FALSE, Upstream(Raises(CtorFailures[f]), AllA, HistoryOk, 0),
                   [ctor_raises |-> TRUE])

Next ==
    Tick \/ Consume \/ Fetch \/ FetchWithClient \/ FetchNoHistory \/ FetchOneDeviation \/ FetchClientFails

Spec == Init /\ [][Next]_vars

-----------------------------------------------------------------------------
(* Fetches in which several section reads may fail.  The first and the     *)
(* last section of the read order deviate; with a price TTL shorter than   *)
(* the fundamental TTL they are missing while the others are still cached. *)

\* what the read of a deviating section meets
SeveralReads ==
    <<ReadA, Raises(Exc429), Raises(Exc503), Raises(Exc500), Raises(ExcHint),
      Raises(ExcHuge)>>

InitFailures ==
    /\ now = 0
    /\ env \in {Environments[1], Environments[3], Env("", "", 1, 2)}
    /\ CACHED_SECTIONS = EmptyMap
    /\ RATE_LIMIT_COOLDOWNS = <<>>
    /\ last = [op |-> "idle"]
    /\ seen = EmptyMap
    /\ VALIDATE_TICKER_CACHE = EmptyMap
    /\ CACHED_TICKER_CLIENTS = EmptyMap

\* the reads of summary_detail and of price answer or fail independently
FetchSeveralFail ==
    /\ Idle
    /\ \E a, b \in DOMAIN SeveralReads :
        Call(FALSE, Upstream(ClientOk,
                             [AllA EXCEPT !["summary_detail"] = SeveralReads[a],
                                          !["price"] = SeveralReads[b]],
                             HistoryOk, 0))

NextFailures == Tick \/ Consume \/ FetchSeveralFail

SpecFailures == InitFailures /\ [][NextFailures]_vars

-----------------------------------------------------------------------------
(* Fetches that derive buybacks: what the key_stats read and the price     *)
(* history read meet is remembered with the result of the call.            *)

\* what the read of key_stats meets: a falling and a rising series of share
\* counts, a message, a single point, a plain number, a failure
SharesReads ==
    <<ReadA, ReadB, ReadText,
      Ok([t |-> "dict", v |-> (Ticker :> PyDict("sharesOutstanding" :> PyList(<<5>>)))]),
      Ok([t |-> "dict", v |-> (Ticker :> PyDict("sharesOutstanding" :> PyInt(5)))]),
      Raises(Exc500)>>

FetchBuybacks ==
    /\ Idle
    /\ \E k \in DOMAIN SharesReads, h \in DOMAIN Histories :
        CallNoting(FALSE,
                   Upstream(ClientOk, [AllA EXCEPT !["key_stats"] = SharesReads[k]],
                            Histories[h], 0),
                   [history |-> Histories[h], key_stats_read |-> SharesReads[k]])

NextBuybacks == Tick \/ Consume \/ FetchBuybacks

SpecBuybacks == InitFailures /\ [][NextBuybacks]_vars

-----------------------------------------------------------------------------
(* The Rate-Limit Tracker on its own: records and queries, as time passes. *)

\* the largest retry_after a record carries
MaxRetryAfter == 2

\* the host of a record: unknown, or the provider's
TrackerHosts == <<None, Some(QueryHost)>>
RetryAfters == {None, Some(HugeSeconds)} \cup {Some(n) : n \in 0..MaxRetryAfter}

InitTracker ==
    /\ now = 0
    /\ env = Environments[1]
    /\ CACHED_SECTIONS = EmptyMap
    /\ RATE_LIMIT_COOLDOWNS = <<>>
    /\ last = [op |-> "idle"]
    /\ seen = EmptyMap
    /\ VALIDATE_TICKER_CACHE = EmptyMap
    /\ CACHED_TICKER_CLIENTS = EmptyMap

\* _record_rate_limit(R) and, immediately after it, _active_rate_limit()
RecordThenActive ==
    /\ Idle
    /\ \E n \in RetryAfters, h \in DOMAIN TrackerHosts :
        \E r \in {_record_rate_limit(RATE_LIMIT_COOLDOWNS, now,
                       RateLimitError(Some(429), "Too many requests", n, EmptyMap,
                                      TrackerHosts[h], PyNone, None))} :
            /\ RATE_LIMIT_COOLDOWNS' = r.cooldowns
            /\ last' = [op |-> "record", raised |-> r.raised, retry_after |-> n,
                        host |-> TrackerHosts[h], record |-> r.record,
                        before |-> RATE_LIMIT_COOLDOWNS,
                        active |-> _active_rate_limit(r.cooldowns, now)]
    /\ UNCHANGED <<now, env, CACHED_SECTIONS, seen,
                 VALIDATE_TICKER_CACHE, CACHED_TICKER_CLIENTS>>

\* _active_rate_limit() at some later moment
CheckActive ==
    /\ Idle
    /\ last' = [op |-> "active", active |-> _active_rate_limit(RATE_LIMIT_COOLDOWNS, now)]
    /\ UNCHANGED <<now, env, CACHED_SECTIONS, RATE_LIMIT_COOLDOWNS, seen,
                 VALIDATE_TICKER_CACHE, CACHED_TICKER_CLIENTS>>

NextTracker == Tick \/ Consume \/ RecordThenActive \/ CheckActive

SpecTracker == InitTracker /\ [][NextTracker]_vars

-----------------------------------------------------------------------------
(* The Section Cache on its own: writes and lookups, as time passes. *)

CacheKeys == {<<"AAPL", "price">>, <<"AAPL", "key_stats">>, <<"MSFT", "price">>}
CachePayloads == <<DataA, EmptyMap>>

InitCache ==
    /\ now = 0
    /\ \E c \in DOMAIN Environments : env = Environments[c]
    /\ CACHED_SECTIONS = EmptyMap
    /\ RATE_LIMIT_COOLDOWNS = <<>>
    /\ last = [op |-> "idle"]
    /\ seen = EmptyMap
    /\ VALIDATE_TICKER_CACHE = EmptyMap
    /\ CACHED_TICKER_CLIENTS = EmptyMap

\* _set_cached_section(ticker, section, payload)
CacheSet ==
    /\ Idle
    /\ \E k \in CacheKeys, p \in DOMAIN CachePayloads :
        /\ CACHED_SECTIONS' =
              _set_cached_section(CACHED_SECTIONS, env, now, k[1], k[2], CachePayloads[p])
        /\ last' = [op |-> "set", key |-> k]
    /\ UNCHANGED <<now, env, RATE_LIMIT_COOLDOWNS, seen,
                 VALIDATE_TICKER_CACHE, CACHED_TICKER_CLIENTS>>

\* _get_cached_section(ticker, section)
CacheGet ==
    /\ Idle
    /\ \E k \in CacheKeys :
        \E got \in {_get_cached_section(CACHED_SECTIONS, env, now, k[1], k[2])} :
            /\ CACHED_SECTIONS' = got.cache
            /\ last' = [op |-> "get", key |-> k, hit |-> got.hit, payload |-> got.payload,
                        cached_before |-> k \in DOMAIN CACHED_SECTIONS]
    /\ UNCHANGED <<now, env, RATE_LIMIT_COOLDOWNS, seen,
                 VALIDATE_TICKER_CACHE, CACHED_TICKER_CLIENTS>>

NextCache == Tick \/ Consume \/ CacheSet \/ CacheGet

SpecCache == InitCache /\ [][NextCache]_vars

-----------------------------------------------------------------------------
(* The Ticker Validator on its own: validations and shared-client requests *)
(* against providers that answer differently.                              *)

Attr(value) == [t |-> "ok", value |-> value]
NoAttr == [t |-> "missing"]
QuoteTypes(m) == Attr([t |-> "dict", v |-> m])
Canonical(symbol) == PyDict("symbol" :> PyStr(symbol))
NotFound == PyStr("Quote not found for ticker symbol")
Provider(ctor, quote_type, symbols) ==
    [ctor |-> ctor, quote_type |-> quote_type, symbols |-> symbols]

\* the provider of test_validate_tickers_filters_and_corrects
DummyTicker ==
    Provider(ClientOk,
             QuoteTypes(("AAPL" :> Canonical("AAPL")) @@ ("KKO" :> Canonical("KO"))
                        @@ ("MSFT" :> Canonical("MSFT"))),
             Attr(PyList(<<"AAPL", "KO", "MSFT">>)))
\* a provider that advertises the symbols it was asked for and knows only AAPL
EchoTicker(normalized) ==
    Provider(ClientOk,
             QuoteTypes([x \in Elements(normalized) |->
                            IF x = "AAPL" THEN Canonical("AAPL") ELSE NotFound]),
             Attr(PyList(normalized)))
\* quote metadata with underlyingSymbol only, or with neither field; no symbol list
UnderlyingTicker ==
    Provider(ClientOk,
             QuoteTypes(("KKO" :> PyDict("underlyingSymbol" :> PyStr("KO")))
                        @@ ("AAPL" :> PyDict("longName" :> PyStr("Apple Inc.")))),
             NoAttr)
\* a provider that lists the typed symbol next to its canonical symbol
ListsBothTicker ==
    Provider(ClientOk,
             QuoteTypes(("AAPL" :> Canonical("AAPL")) @@ ("KKO" :> Canonical("KO"))),
             Attr(PyList(<<"KO", "KKO", "AAPL">>)))
\* no quote metadata at all, and a symbol list
NoQuotesTicker ==
    Provider(ClientOk, QuoteTypes(EmptyMap), Attr(PyList(<<"AAPL", "MSFT">>)))

\* a provider that answers in lower case and names AAPL for two typed symbols
LowercaseTicker ==
    Provider(ClientOk,
             QuoteTypes(("KKO" :> Canonical("aapl")) @@ ("AAPL" :> Canonical("AAPL"))),
             Attr(PyList(<<"aapl", "kko", "AAPL">>)))

ValidatorProviders(normalized) ==
    <<DummyTicker, EchoTicker(normalized), UnderlyingTicker, ListsBothTicker, NoQuotesTicker,
      Provider(Raises(ExcPlain), NoAttr, NoAttr),
      Provider(ClientOk, Raises(ExcPlain), Attr(PyList(normalized))),
      Provider(ClientOk, QuoteTypes(EmptyMap), Raises(Exc503)),
      LowercaseTicker>>

\* the ticker lists that callers pass
TickerLists ==
    <<<<>>, <<"", "">>, <<" ">>, <<"aapl", "", "AAPL">>, <<"AAPL", "kko", "MSFT", "BAD">>,
      <<"kko", "AAPL">>>>

InitValidator ==
    /\ now = 0
    /\ \E c \in 1..3 : env = Environments[c]
    /\ CACHED_SECTIONS = EmptyMap
    /\ RATE_LIMIT_COOLDOWNS = <<>>
    /\ last = [op |-> "idle"]
    /\ seen = EmptyMap
    /\ VALIDATE_TICKER_CACHE = EmptyMap
    /\ CACHED_TICKER_CLIENTS = EmptyMap

\* one call validate_tickers(tickers) against provider
CallValidate(tickers, provider) ==
    \E r \in {validate_tickers(VALIDATE_TICKER_CACHE, env, tickers, provider)} :
        /\ VALIDATE_TICKER_CACHE' = r.vcache
        /\ last' = [op |-> "validate", tickers |-> tickers, provider |-> provider,
                    normalized |-> r.normalized, result |-> r.result,
                    constructed |-> r.constructed, attrs |-> r.attrs,
                    from_cache |-> r.from_cache]
        /\ UNCHANGED <<now, env, CACHED_SECTIONS, RATE_LIMIT_COOLDOWNS, seen,
                       CACHED_TICKER_CLIENTS>>

\* one call get_batched_ticker_client(tickers) against provider
CallBatched(tickers, provider) ==
    \E r \in {get_batched_ticker_client(CACHED_TICKER_CLIENTS, env, tickers, provider)} :
        /\ CACHED_TICKER_CLIENTS' = r.pool
        /\ last' = [op |-> "batched", tickers |-> tickers, client |-> r.client,
                    constructed |-> r.constructed]
        /\ UNCHANGED <<now, env, CACHED_SECTIONS, RATE_LIMIT_COOLDOWNS, seen,
                       VALIDATE_TICKER_CACHE>>

Validate ==
    /\ Idle
    /\ \E l \in DOMAIN TickerLists :
        \E p \in DOMAIN ValidatorProviders(Normalized(TickerLists[l])) :
            CallValidate(TickerLists[l], ValidatorProviders(Normalized(TickerLists[l]))[p])

BatchedClient ==
    /\ Idle
    /\ \E l \in {2, 4, 5}, p \in {1, 6} :
        CallBatched(TickerLists[l], ValidatorProviders(Normalized(TickerLists[l]))[p])

NextValidator == Consume \/ Validate \/ BatchedClient

SpecValidator == InitValidator /\ [][NextValidator]_vars

-----------------------------------------------------------------------------
(* Repeated validation: ticker_cls is one provider that answers the same    *)
(* way at every call, and YF_DISABLE_CACHE may change between the calls.    *)
(* seen holds the provider and, per ticker list, what its first validation *)
(* returned.                                                                *)

\* the providers of ValidatorProviders that raise nothing
Answering == {1, 2, 3, 4, 5, 9}

InitRepeat ==
    /\ now = 0
    /\ \E c \in 1..3 : env = Environments[c]
    /\ CACHED_SECTIONS = EmptyMap
    /\ RATE_LIMIT_COOLDOWNS = <<>>
    /\ last = [op |-> "idle"]
    /\ \E p \in Answering : seen = [provider |-> p, first |-> EmptyMap]
    /\ VALIDATE_TICKER_CACHE = EmptyMap
    /\ CACHED_TICKER_CLIENTS = EmptyMap

\* validate_tickers(tickers) against the provider of this process
Revalidate ==
    /\ Idle
    /\ \E l \in DOMAIN TickerLists :
        \E provider \in {ValidatorProviders(Normalized(TickerLists[l]))[seen.provider]} :
        \E r \in {validate_tickers(VALIDATE_TICKER_CACHE, env, TickerLists[l], provider)} :
            /\ VALIDATE_TICKER_CACHE' = r.vcache
            /\ last' = [op |-> "validate", tickers |-> TickerLists[l],
                        provider |-> provider,
                        normalized |-> r.normalized, result |-> r.result,
                        constructed |-> r.constructed, attrs |-> r.attrs,
                        from_cache |-> r.from_cache]
            /\ seen' = [seen EXCEPT !.first =
                            IF TickerLists[l] \in DOMAIN @ THEN @
                            ELSE (TickerLists[l] :> r.result) @@ @]
    /\ UNCHANGED <<now, env, CACHED_SECTIONS, RATE_LIMIT_COOLDOWNS, CACHED_TICKER_CLIENTS>>

\* YF_DISABLE_CACHE is set or cleared between calls
ToggleCache ==
    /\ Idle
    /\ env' = [env EXCEPT !.YF_DISABLE_CACHE = IF @ = "" THEN "1" ELSE ""]
    /\ UNCHANGED <<now, CACHED_SECTIONS, RATE_LIMIT_COOLDOWNS, last, seen,
                   VALIDATE_TICKER_CACHE, CACHED_TICKER_CLIENTS>>

NextRepeat == Consume \/ Revalidate \/ ToggleCache

SpecRepeat == InitRepeat /\ [][NextRepeat]_vars

-----------------------------------------------------------------------------
(* The modes: SMOKE_TEST and YF_DISABLE_CACHE are read from the             *)
(* environment at every call, so they may change while the process holds   *)
(* cached sections, cooldowns, validated lists and pooled clients.         *)

InitEnviron ==
    /\ now = 0
    /\ env = Environments[1]
    /\ CACHED_SECTIONS = EmptyMap
    /\ RATE_LIMIT_COOLDOWNS = <<>>
    /\ last = [op |-> "idle"]
    /\ seen = EmptyMap
    /\ VALIDATE_TICKER_CACHE = EmptyMap
    /\ CACHED_TICKER_CLIENTS = EmptyMap

\* the environment variables are set or cleared between calls
SetEnviron ==
    /\ Idle
    /\ \E smoke \in {"", "1"}, disable \in {"", "1"} :
        /\ env' = [env EXCEPT !.SMOKE_TEST = smoke, !.YF_DISABLE_CACHE = disable]
        /\ env' # env
    /\ UNCHANGED <<now, CACHED_SECTIONS, RATE_LIMIT_COOLDOWNS, last, seen,
                   VALIDATE_TICKER_CACHE, CACHED_TICKER_CLIENTS>>

\* the watchlist of the validator's test is validated
ValidateWatchlist ==
    /\ Idle
    /\ \E p \in {1, 6} :
        CallValidate(TickerLists[5], ValidatorProviders(Normalized(TickerLists[5]))[p])

\* a shared client is requested for the watchlist
BatchedWatchlist ==
    /\ Idle
    /\ \E p \in {1, 6} :
        CallBatched(TickerLists[5], ValidatorProviders(Normalized(TickerLists[5]))[p])

NextEnviron ==
    Tick \/ Consume \/ SetEnviron \/ FetchWithClient \/ FetchClientFails
    \/ ValidateWatchlist \/ BatchedWatchlist

SpecEnviron == InitEnviron /\ [][NextEnviron]_vars

-----------------------------------------------------------------------------
(* Metric Engine (metrics.py).  A section is a dict from field names to     *)
(* tagged values; a number divided by a number is kept as the quotient of  *)
(* the two.  A call either returns a value or raises ValueError with a     *)
(* message: the kind of the message and the names it lists.                *)

Billion == 1000000000

Returns(value) == [t |-> "returns", value |-> value]
RaisesValueError(message, names) == [t |-> "raises", message |-> message, names |-> names]

\* isinstance(x, (int, float)); a bool is an int
IsNumber(x) == x.t \in {"int", "float", "bool"}
Quotient(a, b) == [t |-> "float", n |-> a, d |-> b]

\* a metric set with a single value raises like one without values
RaisesOnSingleValue(metrics) ==
    IF Cardinality({label \in DOMAIN metrics : metrics[label] # PyNone}) <= 1
    THEN RaisesValueError("No metrics available", <<>>)
    ELSE Returns(metrics)

\* validate_metrics (lines 44-54)
validate_metrics(metrics) ==
    IF DOMAIN metrics = {} \/ \A label \in DOMAIN metrics : metrics[label] = PyNone
    THEN RaisesValueError("No metrics available", <<>>)
    ELSE Returns(metrics)

\* lines 83-128: the metric set handed to validate_metrics
DerivedMetrics(sections) ==
    LET summary == Get(sections, "summary_detail", EmptyMap)
        financial == Get(sections, "financial_data", EmptyMap)
        key_stats == Get(sections, "key_stats", EmptyMap)
        total_revenue_val == Get(financial, "totalRevenue", PyNone)
        shares_outstanding_val == Get(key_stats, "sharesOutstanding", PyNone)
        operating_cashflow == Get(financial, "operatingCashflow", PyNone)
        \* isinstance(shares_outstanding_val, (int, float)) and shares_outstanding_val != 0
        shares_divide ==
            /\ IsNumber(shares_outstanding_val)
            /\ shares_outstanding_val \notin {PyInt(0), PyBool(FALSE)}
        cashflow_per_share ==
            IF IsNumber(operating_cashflow) /\ shares_divide
            THEN Quotient(operating_cashflow, shares_outstanding_val)
            ELSE PyNone
        revenue_per_share == Get(key_stats, "revenuePerShare", PyNone)
        sales_per_share ==
            IF revenue_per_share = PyNone /\ IsNumber(total_revenue_val) /\ shares_divide
            THEN Quotient(total_revenue_val, shares_outstanding_val)
            ELSE revenue_per_share
        freeCashflow == Get(financial, "freeCashflow", PyNone)
        free_cash_flow ==
            IF IsNumber(freeCashflow) THEN Quotient(freeCashflow, PyInt(Billion))
            ELSE freeCashflow
        \* line 103: the default of dict.get is used only when the key is absent
        peg_ratio == Get(key_stats, "pegRatio", Get(summary, "pegRatio", PyNone))
    IN  ("Net Profit Margin (%)" :> Get(financial, "profitMargins", PyNone))
        @@ ("ROE (%)" :> Get(financial, "returnOnEquity", PyNone))
        @@ ("P/E Ratio" :> Get(summary, "trailingPE", PyNone))
        @@ ("P/B Ratio" :> Get(summary, "priceToBook", PyNone))
        @@ ("P/S Ratio" :> Get(summary, "priceToSalesTrailing12Months", PyNone))
        @@ ("Dividend Yield (%)" :> Get(summary, "dividendYield", PyNone))
        @@ ("Current Ratio" :> Get(financial, "currentRatio", PyNone))
        @@ ("Quick Ratio" :> Get(financial, "quickRatio", PyNone))
        @@ ("Cash Flow/Share" :> cashflow_per_share)
        @@ ("Sales/Share" :> sales_per_share)
        @@ ("4 Yr Sales Growth (%)" :> Get(financial, "revenueGrowth", PyNone))
        @@ ("4 Yr EPS Growth (%)" :> Get(financial, "earningsGrowth", PyNone))
        @@ ("Operating Margin (%)" :> Get(financial, "operatingMargins", PyNone))
        @@ ("Debt/Equity" :> Get(financial, "debtToEquity", PyNone))
        @@ ("Free Cash Flow" :> free_cash_flow)
        @@ ("EBITDA Margin (%)" :> Get(financial, "ebitdaMargins", PyNone))
        @@ ("Return on Assets (%)" :> Get(financial, "returnOnAssets", PyNone))
        @@ ("EV / EBITDA" :> Get(key_stats, "enterpriseToEbitda", PyNone))
        @@ ("PEG Ratio" :> peg_ratio)
        @@ ("Insider Ownership (%)" :> Get(key_stats, "heldPercentInsiders", PyNone))
        @@ ("Buybacks" :> Get(sections, "buybacks", PyNone))

\* compute_metrics (lines 80-132)
compute_metrics(sections) == validate_metrics(DerivedMetrics(sections))

\* the order in which sections.items() yields the sections
SectionOrder == CoreSections \o <<"buybacks">>

\* `not data` for a section (a dict) or the buybacks value (None or a bool)
Falsy(data) ==
    IF "t" \in DOMAIN data THEN data \in {PyNone, PyBool(FALSE)} ELSE DOMAIN data = {}

\* the critical fields are not looked at
SkipsCriticalFields(sections, metrics) ==
    IF \E name \in DOMAIN sections : Falsy(sections[name])
    THEN RaisesValueError("No data found: missing sections",
                          SelectSeq(SectionOrder,
                                    LAMBDA name : name \in DOMAIN sections /\ Falsy(sections[name])))
    ELSE IF \A label \in DOMAIN metrics : metrics[label] = PyNone
    THEN RaisesValueError("No metrics available from Yahoo Finance", <<>>)
    ELSE Returns(PyNone)

\* the first missing section is the only one named
NamesFirstMissing(sections, metrics) ==
    LET missing_sections ==
            SelectSeq(SectionOrder,
                      LAMBDA name : name \in DOMAIN sections /\ Falsy(sections[name]))
    IN  IF missing_sections # <<>>
        THEN RaisesValueError("No data found: missing sections", <<Head(missing_sections)>>)
        ELSE Returns(PyNone)

\* ensure_data_available (lines 57-77); a function without return gives None
ensure_data_available(sections, metrics) ==
    LET missing_sections ==
            SelectSeq(SectionOrder,
                      LAMBDA name : name \in DOMAIN sections /\ Falsy(sections[name]))
        critical_fields ==
            ("market cap" :> Get(Get(sections, "key_stats", EmptyMap), "marketCap", PyNone))
            @@ ("total revenue" :>
                    Get(Get(sections, "financial_data", EmptyMap), "totalRevenue", PyNone))
            @@ ("total debt" :>
                    Get(Get(sections, "financial_data", EmptyMap), "totalDebt", PyNone))
        missing_fields ==
            SelectSeq(<<"market cap", "total revenue", "total debt">>,
                      LAMBDA name : critical_fields[name] = PyNone)
    IN  IF missing_sections # <<>>
        THEN RaisesValueError("No data found: missing sections", missing_sections)
        ELSE IF \A label \in DOMAIN metrics : metrics[label] = PyNone
        THEN RaisesValueError("No metrics available from Yahoo Finance", <<>>)
        ELSE IF missing_fields # <<>>
        THEN RaisesValueError("Missing required fields", missing_fields)
        ELSE Returns(PyNone)

\* cli._normalized_sections: the bundle without buybacks, error and cache_info
_normalized_sections(sections) ==
    [k \in DOMAIN sections \ {"buybacks", "error", "cache_info"} |-> sections[k]]

-----------------------------------------------------------------------------
(* The Metric Engine on its own: compute_metrics and ensure_data_available *)
(* are applied to bundles in which the fields the derivations and the      *)
(* critical-field check read are absent, null or present, and in which     *)
(* some or all core sections are empty.                                    *)

Bundles ==
    LET Absent == [t |-> "absent"]
        Entry(key, value) == IF value = Absent THEN EmptyMap ELSE key :> value
        Bundle(pe, summary_peg, key_stats_peg, cap, fallback, revenue, debt, cash, free,
               shares, buybacks, emptied) ==
            [name \in CoreSet \cup {"buybacks"} |->
                CASE name \in emptied -> EmptyMap
                  [] name = "summary_detail" ->
                        ("trailingPE" :> pe) @@ Entry("pegRatio", summary_peg)
                        @@ (IF fallback = name THEN "marketCap" :> PyInt(2250) ELSE EmptyMap)
                  [] name = "financial_data" ->
                        ("totalRevenue" :> revenue) @@ ("totalDebt" :> debt)
                        @@ Entry("operatingCashflow", cash) @@ Entry("freeCashflow", free)
                  [] name = "asset_profile" -> "industry" :> PyStr("Tech")
                  [] name = "key_stats" ->
                        ("marketCap" :> cap) @@ Entry("pegRatio", key_stats_peg)
                        @@ Entry("sharesOutstanding", shares)
                  [] name = "quote_type" -> "longName" :> PyStr("Apple Inc.")
                  [] name = "price" ->
                        ("shortName" :> PyStr("Test"))
                        @@ (IF fallback = name THEN "marketCap" :> PyInt(3500) ELSE EmptyMap)
                  [] OTHER -> buybacks]
    IN  {Bundle(pe, summary_peg, key_stats_peg, cap, fallback, revenue, debt, cash, free,
                shares, buybacks, emptied) :
            pe \in {PyNone, PyInt(20)},
            summary_peg \in {Absent, PyInt(3)},
            key_stats_peg \in {Absent, PyNone, PyInt(2)},
            cap \in {PyNone, PyInt(2000)},
            fallback \in {"", "price", "summary_detail"},
            revenue \in {PyNone, PyInt(5000)},
            debt \in {PyNone, PyInt(500)},
            cash \in {Absent, PyInt(10)},
            free \in {Absent, PyInt(7)},
            shares \in {Absent, PyInt(0), PyInt(5)},
            buybacks \in {PyNone, PyBool(FALSE)},
            emptied \in {{}, {"price"}, CoreSet}}

\* one call compute_metrics(ticker, sections)
ComputeMetrics ==
    /\ Idle
    /\ \E sections \in Bundles :
        last' = [op |-> "compute_metrics", sections |-> sections,
                 result |-> compute_metrics(sections)]
    /\ UNCHANGED <<now, env, CACHED_SECTIONS, RATE_LIMIT_COOLDOWNS, seen,
                   VALIDATE_TICKER_CACHE, CACHED_TICKER_CLIENTS>>

\* one call ensure_data_available(ticker, sections, metrics) as the CLI and
\* the tests make it: with the derived metric set or a metric set of the tests
EnsureAvailable ==
    /\ Idle
    /\ \E sections \in Bundles :
        \E metrics \in {DerivedMetrics(sections), "P/E Ratio" :> PyNone,
                         ("P/E Ratio" :> PyInt(15)) @@ ("Current Ratio" :> PyNone)} :
        last' = [op |-> "ensure_data_available",
                 sections |-> _normalized_sections(sections), metrics |-> metrics,
                 result |-> ensure_data_available(_normalized_sections(sections), metrics)]
    /\ UNCHANGED <<now, env, CACHED_SECTIONS, RATE_LIMIT_COOLDOWNS, seen,
                   VALIDATE_TICKER_CACHE, CACHED_TICKER_CLIENTS>>

NextMetrics == Consume \/ ComputeMetrics \/ EnsureAvailable

SpecMetrics == InitEnviron /\ [][NextMetrics]_vars

-----------------------------------------------------------------------------
(* Retry-After parsing on its own: _parse_retry_after is applied to the    *)
(* headers and payloads an error response may carry, at different times.   *)

\* one call _parse_retry_after(headers, payload)
ParseRetryAfter ==
    LET header_values ==
            {HeaderInt(-1), HeaderInt(0), HeaderInt(7),
             [t |-> "isodate", aware |-> TRUE, v |-> 2],
             [t |-> "isodate", aware |-> TRUE, v |-> 9],
             [t |-> "isodate", aware |-> FALSE, v |-> 9],
             [t |-> "httpdate", v |-> 9],
             [t |-> "text", v |-> "soon"]}
        headers_sent ==
            {EmptyMap, "Content-Type" :> [t |-> "text", v |-> "application/json"]}
            \cup {key :> value : key \in {"Retry-After", "RETRY-AFTER"}, value \in header_values}
        payloads ==
            {PyNone, PyStr("Too Many Requests"),
             PyDict("message" :> PyStr("Too many requests")),
             PyDict("retry_after" :> PyInt(2)),
             PyDict("retryAfter" :> PyInt(1)),
             PyDict(("retry_after" :> PyInt(0)) @@ ("retryAfter" :> PyInt(4))),
             PyDict(("retry_after" :> PyStr("soon")) @@ ("retryAfter" :> PyInt(4)))}
    IN  /\ Idle
        /\ \E headers \in headers_sent, payload \in payloads :
            last' = [op |-> "_parse_retry_after", headers |-> headers, payload |-> payload,
                     result |-> _parse_retry_after(headers, payload, now)]
        /\ UNCHANGED <<now, env, CACHED_SECTIONS, RATE_LIMIT_COOLDOWNS, seen,
                       VALIDATE_TICKER_CACHE, CACHED_TICKER_CLIENTS>>

NextRetryAfter == Tick \/ Consume \/ ParseRetryAfter

SpecRetryAfter == InitEnviron /\ [][NextRetryAfter]_vars

-----------------------------------------------------------------------------
(* The Section Normalizer on its own: _safe_section is applied to section  *)
(* objects of every shape the provider returns and to three tickers.       *)

Symbols == {"AAPL", "MSFT"}
\* tables with zero to two rows (labels may repeat), records, keyed sections
\* (under a ticker key: the data, a message, a list or nothing) and the rest
SectionObjects ==
    LET labels == {<<>>} \cup {<<a>> : a \in Symbols} \cup {<<a, b>> : a, b \in Symbols}
        values == {PyDict(DataA), PyDict(DataB), PyDict(EmptyMap), PyNone,
                   PyStr("No fundamentals data found"), PyList(<<DataA>>)}
    IN  {[t |-> "DataFrame", index |-> index, rows |-> [i \in DOMAIN index |-> first]] :
            index \in labels, first \in {DataA, DataB}}
        \cup {[t |-> "DataFrame", index |-> <<a, b>>, rows |-> <<DataA, DataB>>] :
                a, b \in Symbols}
        \cup {[t |-> "Series", name |-> name, data |-> data] :
                name \in Symbols \cup {""}, data \in {DataA, DataB, EmptyMap}}
        \cup {[t |-> "dict", v |-> m] :
                m \in UNION {[keys -> values] : keys \in SUBSET Symbols}}
        \cup {PyList(<<>>), PyNone, PyStr("Too Many Requests"), PyInt(0)}

\* one call _safe_section(section, ticker)
SafeSection ==
    /\ Idle
    /\ \E section \in SectionObjects, ticker \in Symbols \cup {"BAD"} :
        last' = [op |-> "_safe_section", section |-> section, ticker |-> ticker,
                 result |-> _safe_section(section, ticker)]
    /\ UNCHANGED <<now, env, CACHED_SECTIONS, RATE_LIMIT_COOLDOWNS, seen,
                   VALIDATE_TICKER_CACHE, CACHED_TICKER_CLIENTS>>

NextNormalizer == Consume \/ SafeSection

SpecNormalizer == InitEnviron /\ [][NextNormalizer]_vars

-----------------------------------------------------------------------------
(* Two fetches interleaved on the Section Cache.  Each thread runs one     *)
(* _get_cached_section or one _set_cached_section at a time, statement by  *)
(* statement; seen holds, per thread, where it stands (pc), the section it *)
(* works on, the entry its lookup read (cached), the expiry its write      *)
(* computed, and whether another thread stored an entry for the section    *)
(* since the lookup read (raced).  Nothing in the code orders the threads. *)

Threads == {1, 2}
RaceSections == {"price", "key_stats"}
ThreadIdle ==
    [pc |-> "idle", section |-> "", cached |-> None, expires_at |-> 0, raced |-> FALSE]

InitRace ==
    /\ now = 0
    /\ env \in {Environments[3], Environments[4], Env("", "", 1, 2)}
    /\ CACHED_SECTIONS = EmptyMap
    /\ RATE_LIMIT_COOLDOWNS = <<>>
    /\ last = [op |-> "idle"]
    /\ seen = [p \in Threads |-> ThreadIdle]
    /\ VALIDATE_TICKER_CACHE = EmptyMap
    /\ CACHED_TICKER_CLIENTS = EmptyMap

\* no entry is ever found fresh
NeverUnexpired(cached, t) == FALSE

\* line 73: `expires_at > _utcnow()`
Unexpired(cached, t) == cached.expires_at > t

\* lines 65-69: `if not _cache_enabled(): return None`, else
\* `cached = CACHED_SECTIONS.get(cache_key)`
LookupRead ==
    /\ Idle
    /\ \E p \in Threads, section \in RaceSections :
        /\ seen[p].pc = "idle"
        /\ IF ~_cache_enabled(env)
           THEN /\ seen' = seen
                /\ last' = [op |-> "lookup", thread |-> p, section |-> section,
                            hit |-> FALSE]
           ELSE /\ seen' = [seen EXCEPT ![p] =
                                [pc |-> "got", section |-> section,
                                 cached |-> IF <<Ticker, section>> \in DOMAIN CACHED_SECTIONS
                                            THEN Some(CACHED_SECTIONS[<<Ticker, section>>])
                                            ELSE None,
                                 expires_at |-> 0, raced |-> FALSE]]
                /\ last' = [op |-> "read", thread |-> p, section |-> section]
    /\ UNCHANGED <<now, env, CACHED_SECTIONS, RATE_LIMIT_COOLDOWNS,
                   VALIDATE_TICKER_CACHE, CACHED_TICKER_CLIENTS>>

\* lines 70-74: `if not cached: return None`, `if expires_at > _utcnow(): return payload`
LookupTest ==
    /\ Idle
    /\ \E p \in Threads :
        /\ seen[p].pc = "got"
        /\ IF IsNone(seen[p].cached)
           THEN /\ seen' = [seen EXCEPT ![p] = ThreadIdle]
                /\ last' = [op |-> "lookup", thread |-> p, section |-> seen[p].section,
                            hit |-> FALSE]
           ELSE IF Unexpired(seen[p].cached[1], now)
           THEN /\ seen' = [seen EXCEPT ![p] = ThreadIdle]
                /\ last' = [op |-> "lookup", thread |-> p, section |-> seen[p].section,
                            hit |-> TRUE]
           ELSE /\ seen' = [seen EXCEPT ![p].pc = "stale"]
                /\ last' = [op |-> "test", thread |-> p, section |-> seen[p].section]
    /\ UNCHANGED <<now, env, CACHED_SECTIONS, RATE_LIMIT_COOLDOWNS,
                   VALIDATE_TICKER_CACHE, CACHED_TICKER_CLIENTS>>

\* lines 76-77: `CACHED_SECTIONS.pop(cache_key, None)`, `return None`
LookupEvict ==
    /\ Idle
    /\ \E p \in Threads :
        /\ seen[p].pc = "stale"
        /\ CACHED_SECTIONS' = Without(CACHED_SECTIONS, <<Ticker, seen[p].section>>)
        /\ seen' = [seen EXCEPT ![p] = ThreadIdle]
        /\ last' = [op |-> "evict", thread |-> p, section |-> seen[p].section, at |-> now,
                    read |-> seen[p].cached, raced |-> seen[p].raced,
                    removed |-> IF <<Ticker, seen[p].section>> \in DOMAIN CACHED_SECTIONS
                                THEN Some(CACHED_SECTIONS[<<Ticker, seen[p].section>>])
                                ELSE None]
    /\ UNCHANGED <<now, env, RATE_LIMIT_COOLDOWNS, VALIDATE_TICKER_CACHE,
                   CACHED_TICKER_CLIENTS>>

\* lines 82-86: `if not _cache_enabled(): return`, else the ttl and
\* `expires_at = _utcnow() + timedelta(seconds=ttl)`
WriteCompute ==
    /\ Idle
    /\ _cache_enabled(env)
    /\ \E p \in Threads, section \in RaceSections :
        /\ seen[p].pc = "idle"
        /\ seen' = [seen EXCEPT ![p] =
                        [pc |-> "computed", section |-> section, cached |-> None,
                         expires_at |-> now + _section_ttl_seconds(env, section),
                         raced |-> FALSE]]
        /\ last' = [op |-> "compute", thread |-> p, section |-> section]
    /\ UNCHANGED <<now, env, CACHED_SECTIONS, RATE_LIMIT_COOLDOWNS,
                   VALIDATE_TICKER_CACHE, CACHED_TICKER_CLIENTS>>

\* line 87: `CACHED_SECTIONS[(ticker, section)] = (expires_at, payload)`
WriteStore ==
    /\ Idle
    /\ \E p \in Threads :
        /\ seen[p].pc = "computed"
        /\ CACHED_SECTIONS' =
              (<<Ticker, seen[p].section>> :>
                  [expires_at |-> seen[p].expires_at, payload |-> DataA])
              @@ CACHED_SECTIONS
        /\ seen' = [q \in Threads |->
                        IF q = p THEN ThreadIdle
                        ELSE IF seen[q].pc \in {"got", "stale"}
                                /\ seen[q].section = seen[p].section
                        THEN [seen[q] EXCEPT !.raced = TRUE]
                        ELSE seen[q]]
        /\ last' = [op |-> "store", thread |-> p, section |-> seen[p].section]
    /\ UNCHANGED <<now, env, RATE_LIMIT_COOLDOWNS, VALIDATE_TICKER_CACHE,
                   CACHED_TICKER_CLIENTS>>

NextRace ==
    Tick \/ Consume \/ LookupRead \/ LookupTest \/ LookupEvict \/ WriteCompute
    \/ WriteStore

SpecRace == InitRace /\ [][NextRace]_vars

-----------------------------------------------------------------------------
(* Properties of fetch_ticker_sections. *)

\* the state right after a call, and after a call that returned a bundle
Fetched == last.op = "fetch"
FetchReturned == Fetched /\ last.outcome = "returned"
\* a step that is one call of fetch_ticker_sections
FetchStep == Idle /\ last'.op = "fetch"

BundleKeys ==
    {"summary_detail", "financial_data", "asset_profile", "key_stats", "quote_type",
     "price", "buybacks", "error", "cache_info"}

\* some recorded cooldown expiry is later than t
CooldownActive(cd, t) == \E i \in DOMAIN cd : cd[i][2] > t
\* the whole seconds until the soonest active cooldown expires
SecondsLeft(cd, t) ==
    CHOOSE n \in {cd[i][2] - t : i \in {j \in DOMAIN cd : cd[j][2] > t}} :
        \A i \in DOMAIN cd : cd[i][2] > t => n <= cd[i][2] - t
\* the section has an unexpired entry that lookups may use
ValidlyCached(section) ==
    /\ _cache_enabled(env)
    /\ <<Ticker, section>> \in DOMAIN CACHED_SECTIONS
    /\ CACHED_SECTIONS[<<Ticker, section>>].expires_at > now

\* C1: whatever the upstream does, a call of fetch_ticker_sections returns a
\* bundle and never propagates an exception.
C1_NeverRaises == Fetched => last.outcome = "returned"

\* C2: a call made while a cooldown is active and some core section is not
\* validly cached returns at once: no client is constructed, nothing is read,
\* the cache gains nothing, the tracker is unchanged, every core section of
\* the bundle is its cache hit or empty, and error.rate_limit.remaining is the
\* whole seconds left of the cooldown.
C2_CooldownShortCircuit ==
    [][(/\ FetchStep
        /\ CooldownActive(RATE_LIMIT_COOLDOWNS, now)
        /\ \E s \in CoreSet : ~ValidlyCached(s))
       => /\ last'.outcome = "returned"
          /\ ~last'.client_constructed
          /\ last'.reads = <<>>
          /\ ~last'.history_read
          /\ \A k \in DOMAIN CACHED_SECTIONS' :
                k \in DOMAIN CACHED_SECTIONS /\ CACHED_SECTIONS'[k] = CACHED_SECTIONS[k]
          /\ RATE_LIMIT_COOLDOWNS' = RATE_LIMIT_COOLDOWNS
          /\ \A s \in CoreSet :
                last'.bundle[s] = IF ValidlyCached(s)
                                  THEN CACHED_SECTIONS[<<Ticker, s>>].payload
                                  ELSE EmptyMap
          /\ "rate_limit" \in DOMAIN last'.bundle.error
          /\ last'.bundle.error.rate_limit.message = "Rate limit active"
          /\ last'.bundle.error.rate_limit.remaining
                = Some(SecondsLeft(RATE_LIMIT_COOLDOWNS, now))]_vars

\* a short-circuited call that served some core sections from the cache and
\* left the others empty
C2_Witness ==
    /\ FetchReturned
    /\ "error" \in DOMAIN last.bundle
    /\ "message" \in DOMAIN last.bundle.error
    /\ last.bundle.error.message = "Rate limit active"
    /\ ~last.client_constructed
    /\ \E s \in CoreSet : last.bundle[s] # EmptyMap
    /\ \E s \in CoreSet : last.bundle[s] = EmptyMap

\* C3: while a cooldown is active no call of fetch_ticker_sections constructs
\* a client or performs a section read or a price-history read, whatever the
\* cache holds.
C3_NoNetworkWhileCooldown ==
    [][(FetchStep /\ CooldownActive(RATE_LIMIT_COOLDOWNS, now))
       => /\ ~last'.client_constructed
          /\ last'.reads = <<>>
          /\ ~last'.history_read]_vars

\* C4: with caching enabled, a fetch made within a section's TTL of an earlier
\* fetch that read the section over the network does not read it again, and
\* returns the content the earlier fetch returned.
C4_OneReadPerTTLWindow ==
    [][(FetchStep /\ _cache_enabled(env))
       => \A s \in DOMAIN seen :
            now < seen[s].at + _section_ttl_seconds(env, s)
            => /\ \A i \in DOMAIN last'.reads : last'.reads[i] # s
               /\ last'.outcome = "returned" => last'.bundle[s] = seen[s].content]_vars

\* a later fetch, still inside the TTL window, that served the section read
\* earlier without reading it
C4_Witness ==
    /\ FetchReturned
    /\ _cache_enabled(env)
    /\ \E s \in DOMAIN seen :
        /\ seen[s].at < last.at
        /\ last.at < seen[s].at + _section_ttl_seconds(env, s)
        /\ \A i \in DOMAIN last.reads : last.reads[i] # s
        /\ seen[s].content # EmptyMap
        /\ last.bundle[s] = seen[s].content

\* C5: when a section read fails with a rate-limiting response, the returned
\* bundle's error carries a rate_limit record and the tracker's cooldown for
\* that record's host is later than the current time right after the call.
C5_CooldownInFuture ==
    (/\ FetchReturned
     /\ last.failed # <<>>
     /\ \/ last.failed[1][2] = Exc429
        \/ last.failed[1][2] = Exc503
        \/ last.failed[1][2] = ExcNegative)
    => /\ "rate_limit" \in DOMAIN last.bundle.error
       /\ LET host == IF IsNone(last.bundle.error.rate_limit.host) THEN "yahoo_finance"
                      ELSE last.bundle.error.rate_limit.host[1]
          IN  /\ host \in Hosts(RATE_LIMIT_COOLDOWNS)
              /\ ResumeAt(RATE_LIMIT_COOLDOWNS, host) > now

\* C7: every returned bundle has all nine keys, and its error is the empty
\* mapping when nothing failed.
C7_BundleShape ==
    FetchReturned
    => /\ BundleKeys \subseteq DOMAIN last.bundle
       /\ \A s \in CoreSet : DOMAIN last.bundle[s] \subseteq STRING
       /\ (last.reads # <<>> /\ last.failed = <<>>) => last.bundle.error = EmptyMap

\* C8: the buybacks value of every returned bundle is a boolean or null.
C8_BuybacksBoolOrNull ==
    FetchReturned => last.bundle.buybacks.t \in {"bool", "none"}

\* C9: when the read of a section raises, the call leaves no cache entry for
\* that section.
C9_FailedReadNotCached ==
    Fetched
    => \A i \in DOMAIN last.failed :
         <<Ticker, last.failed[i][1]>> \notin DOMAIN CACHED_SECTIONS

-----------------------------------------------------------------------------
(* Properties of the Rate-Limit Tracker and of the Section Cache. *)

\* C6: for a record with retry_after = n >= 0, _active_rate_limit called right
\* after _record_rate_limit returns a record with 0 <= remaining <= n.
C6_RemainingWithinRetryAfter ==
    (last.op = "record" /\ ~IsNone(last.retry_after))
    => /\ ~IsNone(last.active)
       /\ 0 <= last.active[1].remaining[1]
       /\ last.active[1].remaining[1] <= last.retry_after[1]

\* C10: a lookup hits only an entry whose expiry is later than now and returns
\* its payload, leaving the entry in place; with caching enabled a lookup of
\* an entry at or past its expiry misses and removes it; no other entry is
\* touched by a lookup, and the passing of time removes none.
C10_LazyExpiry ==
    [][/\ (Idle /\ last'.op = "get")
          => LET k == last'.key IN
             /\ last'.hit
                  => /\ k \in DOMAIN CACHED_SECTIONS
                     /\ CACHED_SECTIONS[k].expires_at > now
                     /\ last'.payload = CACHED_SECTIONS[k].payload
             /\ (_cache_enabled(env) /\ k \in DOMAIN CACHED_SECTIONS)
                  => IF CACHED_SECTIONS[k].expires_at > now
                     THEN /\ last'.hit
                          /\ k \in DOMAIN CACHED_SECTIONS'
                          /\ CACHED_SECTIONS'[k] = CACHED_SECTIONS[k]
                     ELSE ~last'.hit /\ k \notin DOMAIN CACHED_SECTIONS'
             /\ \A j \in DOMAIN CACHED_SECTIONS \ {k} :
                  j \in DOMAIN CACHED_SECTIONS' /\ CACHED_SECTIONS'[j] = CACHED_SECTIONS[j]
       /\ last'.op \notin {"get", "set"} => CACHED_SECTIONS' = CACHED_SECTIONS]_vars

\* a lookup that missed and removed an expired entry while another expired
\* entry, not looked up, is still in the cache
C10_Witness ==
    /\ last.op = "get"
    /\ last.cached_before
    /\ ~last.hit
    /\ last.key \notin DOMAIN CACHED_SECTIONS
    /\ \E j \in DOMAIN CACHED_SECTIONS : CACHED_SECTIONS[j].expires_at <= now

-----------------------------------------------------------------------------
(* Further properties of the Section Cache and of the modes. *)

\* the TTL of a section's category: short for price and summary_detail, long
\* for the other sections and the buybacks entry
CategoryTTL(section) ==
    IF section \in {"price", "summary_detail"} THEN env.price_ttl ELSE env.fundamental_ttl

\* C11: every cache write sets the expiry to the write time plus the TTL of
\* the section's category, so no stored entry expires later than now plus
\* that TTL.
C11_ExpiryIsWritePlusTTL ==
    /\ \A k \in DOMAIN CACHED_SECTIONS :
         CACHED_SECTIONS[k].expires_at <= now + CategoryTTL(k[2])
    /\ Fetched
         => \A i \in DOMAIN last.reads :
              <<Ticker, last.reads[i]>> \in DOMAIN CACHED_SECTIONS
              => CACHED_SECTIONS[<<Ticker, last.reads[i]>>].expires_at
                   = last.at + CategoryTTL(last.reads[i])
    /\ (Fetched /\ last.history_read /\ <<Ticker, "buybacks">> \in DOMAIN CACHED_SECTIONS)
         => CACHED_SECTIONS[<<Ticker, "buybacks">>].expires_at = now + CategoryTTL("buybacks")

\* a call that wrote a short-TTL section, a long-TTL section and the
\* buybacks entry, the two TTLs being different
C11_Witness ==
    /\ FetchReturned
    /\ env.price_ttl # env.fundamental_ttl
    /\ last.history_read
    /\ \E i, j \in DOMAIN last.reads : last.reads[i] = "price" /\ last.reads[j] = "key_stats"
    /\ {<<Ticker, "price">>, <<Ticker, "key_stats">>, <<Ticker, "buybacks">>}
         \subseteq DOMAIN CACHED_SECTIONS
    /\ CACHED_SECTIONS[<<Ticker, "price">>].expires_at = last.at + env.price_ttl
    /\ CACHED_SECTIONS[<<Ticker, "key_stats">>].expires_at = last.at + env.fundamental_ttl

\* caching is disabled by YF_DISABLE_CACHE or by smoke mode
SmokeOn == env.SMOKE_TEST \notin {"", "0", "false", "no"}
CachingDisabled == env.YF_DISABLE_CACHE \in {"1", "true", "yes"} \/ SmokeOn

\* C12: while caching is disabled every cache get is a miss and every cache
\* put a no-op, a fetch leaves the stored cache contents unchanged and the
\* bundle it returns reports no cached section.
C12_DisabledCacheUntouched ==
    [][(FetchStep /\ CachingDisabled)
       => /\ \A i \in DOMAIN requested_sections :
               LET got == _get_cached_section(CACHED_SECTIONS, env, now, Ticker,
                                              requested_sections[i])
               IN  ~got.hit /\ got.cache = CACHED_SECTIONS
          /\ \A i \in DOMAIN requested_sections :
               _set_cached_section(CACHED_SECTIONS, env, now, Ticker,
                                   requested_sections[i], DataB) = CACHED_SECTIONS
          /\ CACHED_SECTIONS' = CACHED_SECTIONS
          /\ last'.outcome = "returned"
               => last'.bundle.cache_info.sections_cached = {}]_vars

\* a fetch that read the sections over the network with YF_DISABLE_CACHE set
\* while the cache held unexpired entries
C12_Witness ==
    /\ FetchReturned
    /\ ~SmokeOn
    /\ CachingDisabled
    /\ last.reads # <<>>
    /\ last.bundle.cache_info.sections_cached = {}
    /\ \E s \in CoreSet :
         /\ <<Ticker, s>> \in DOMAIN CACHED_SECTIONS
         /\ CACHED_SECTIONS[<<Ticker, s>>].expires_at > now

\* C13: in smoke mode validate_tickers, get_batched_ticker_client and
\* fetch_ticker_sections construct no client and read nothing from one;
\* validate_tickers returns the normalized list as it is, and
\* fetch_ticker_sections returns the demonstration bundle and leaves the cache
\* and the tracker unchanged, also while a cooldown is active.
C13_SmokeModeOffline ==
    [][(Idle /\ SmokeOn)
       => /\ last'.op = "validate"
               => /\ ~last'.constructed
                  /\ last'.attrs = <<>>
                  /\ last'.result = <<"AAPL", "KKO", "MSFT", "BAD">>
          /\ last'.op = "batched"
               => ~last'.constructed /\ last'.client = None
          /\ last'.op = "fetch"
               => /\ last'.outcome = "returned"
                  /\ ~last'.client_constructed
                  /\ last'.reads = <<>>
                  /\ ~last'.history_read
                  /\ last'.bundle = SmokeBundle(Ticker, EmptyMap, {})
                  /\ CACHED_SECTIONS' = CACHED_SECTIONS
                  /\ RATE_LIMIT_COOLDOWNS' = RATE_LIMIT_COOLDOWNS]_vars

\* a fetch in smoke mode while a cooldown is active and the cache holds
\* entries, answered with the demonstration bundle
C13_Witness ==
    /\ FetchReturned
    /\ SmokeOn
    /\ CooldownActive(RATE_LIMIT_COOLDOWNS, now)
    /\ CACHED_SECTIONS # EmptyMap
    /\ last.bundle.asset_profile = [industry |-> "Demo Software", sector |-> "Technology"]
    /\ last.bundle.buybacks = PyBool(TRUE)

-----------------------------------------------------------------------------
(* Further properties of the Rate-Limit Tracker. *)

\* C14: _active_rate_limit returns none when no recorded expiry is later than
\* now; otherwise a record for a host whose expiry is the earliest of those in
\* the future, with remaining and retry_after the whole seconds until that
\* expiry, never negative; the tracker is not modified.
C14_ActiveIsSoonest ==
    [][(Idle /\ last'.op = "active")
       => /\ RATE_LIMIT_COOLDOWNS' = RATE_LIMIT_COOLDOWNS
          /\ IF ~CooldownActive(RATE_LIMIT_COOLDOWNS, now)
             THEN last'.active = None
             ELSE /\ last'.active # None
                  /\ last'.active[1].host # None
                  /\ LET host == last'.active[1].host[1] IN
                     /\ host \in Hosts(RATE_LIMIT_COOLDOWNS)
                     /\ ResumeAt(RATE_LIMIT_COOLDOWNS, host) > now
                     /\ \A i \in DOMAIN RATE_LIMIT_COOLDOWNS :
                          RATE_LIMIT_COOLDOWNS[i][2] > now
                          => ResumeAt(RATE_LIMIT_COOLDOWNS, host) <= RATE_LIMIT_COOLDOWNS[i][2]
                     /\ last'.active[1].remaining
                          = Some(ResumeAt(RATE_LIMIT_COOLDOWNS, host) - now)
                     /\ last'.active[1].retry_after = last'.active[1].remaining
                     /\ last'.active[1].remaining[1] >= 0]_vars

\* a query answered with the second host of the tracker, whose cooldown ends
\* before the first host's, both being in the future
C14_Witness ==
    /\ last.op = "active"
    /\ Len(RATE_LIMIT_COOLDOWNS) = 2
    /\ now < RATE_LIMIT_COOLDOWNS[2][2]
    /\ RATE_LIMIT_COOLDOWNS[2][2] < RATE_LIMIT_COOLDOWNS[1][2]
    /\ last.active # None
    /\ last.active[1].host = Some(RATE_LIMIT_COOLDOWNS[2][1])
    /\ last.active[1].remaining = Some(RATE_LIMIT_COOLDOWNS[2][2] - now)

\* C15: _record_rate_limit sets the cooldown of the record's host (yahoo_finance
\* when it has none) to now + retry_after, with 60 seconds when no retry_after
\* is supplied, overwriting that host's cooldown and leaving the others.
C15_RecordSetsCooldown ==
    [][(Idle /\ last'.op = "record")
       => LET host == IF last'.host = None THEN "yahoo_finance" ELSE last'.host[1]
              retry_after == IF last'.retry_after = None THEN 60
                             ELSE last'.retry_after[1]
          IN  /\ ~last'.raised
              /\ Hosts(RATE_LIMIT_COOLDOWNS') = Hosts(RATE_LIMIT_COOLDOWNS) \cup {host}
              /\ ResumeAt(RATE_LIMIT_COOLDOWNS', host) = now + retry_after
              /\ \A h \in Hosts(RATE_LIMIT_COOLDOWNS) \ {host} :
                   ResumeAt(RATE_LIMIT_COOLDOWNS', h) = ResumeAt(RATE_LIMIT_COOLDOWNS, h)]_vars

-----------------------------------------------------------------------------
(* Properties of the Ticker Validator. *)

ValidateEnded == last.op = "validate"
\* an entry that is empty or holds only white space
Blank(x) == x \in {"", " "}
\* the provider was asked and answered, or was asked and raised
ProviderRaised ==
    \/ last.provider.ctor.t = "raises"
    \/ last.provider.quote_type.t = "raises"
    \/ last.provider.symbols.t = "raises"
ProviderAnswered == ValidateEnded /\ last.constructed /\ ~ProviderRaised
ProviderFailed == ValidateEnded /\ last.constructed /\ ProviderRaised
\* the provider's quote metadata for symbol x, and its advertised symbols
HasQuote(x) ==
    /\ last.provider.quote_type.t = "ok"
    /\ x \in DOMAIN last.provider.quote_type.value.v
    /\ last.provider.quote_type.value.v[x].t = "dict"
    /\ DOMAIN last.provider.quote_type.value.v[x].v # {}
CanonicalOf(x) ==
    LET quote == last.provider.quote_type.value.v[x].v IN
    IF "symbol" \in DOMAIN quote THEN quote["symbol"].v
    ELSE IF "underlyingSymbol" \in DOMAIN quote THEN quote["underlyingSymbol"].v
    ELSE x
Advertised(x) ==
    /\ last.provider.symbols.t = "ok"
    /\ last.provider.symbols.value.t = "list"
    /\ \E i \in DOMAIN last.provider.symbols.value.v :
         Upper(last.provider.symbols.value.v[i]) = x
\* the symbol that stands in the result for the typed symbol x
Image(x) == IF HasQuote(x) THEN Upper(CanonicalOf(x)) ELSE x
Recognized(x) == HasQuote(x) \/ Advertised(x)

\* C16: the normalized list has no blank entry, is uppercase and without
\* duplicates, and holds the typed symbols in first-seen order; when it is
\* empty the result is the empty list and the provider is not contacted.
C16_Normalization ==
    ValidateEnded
    => /\ \A i \in DOMAIN last.normalized :
            ~Blank(last.normalized[i]) /\ Upper(last.normalized[i]) = last.normalized[i]
       /\ \A i, j \in DOMAIN last.normalized :
            last.normalized[i] = last.normalized[j] => i = j
       /\ Elements(last.normalized)
            = {Upper(last.tickers[i]) : i \in {j \in DOMAIN last.tickers : ~Blank(last.tickers[j])}}
       /\ \A i, j \in DOMAIN last.normalized :
            i < j => \E a \in DOMAIN last.tickers :
                        /\ Upper(last.tickers[a]) = last.normalized[i]
                        /\ \A b \in 1..a : Upper(last.tickers[b]) # last.normalized[j]
       /\ (\A i \in DOMAIN last.tickers : Blank(last.tickers[i]))
            => last.result = <<>> /\ ~last.constructed

\* C17: when the provider raises while the client is constructed or its
\* quote metadata or symbol list is read, validate_tickers returns the
\* normalized list.
C17_FailsOpenOnProviderError ==
    ProviderFailed => last.result = last.normalized /\ last.result # <<>>

\* the watchlist was validated, the read of the symbol list raised, and all
\* four symbols came back
C17_Witness ==
    /\ ValidateEnded
    /\ last.constructed
    /\ last.provider.symbols.t = "raises"
    /\ last.attrs = <<"quote_type", "symbols">>
    /\ last.result = <<"AAPL", "KKO", "MSFT", "BAD">>

\* the typed symbols the provider recognizes, and the positions in the input
\* of a symbol of the result: where it was typed or where it is the image
FirstPass == {Image(last.normalized[i]) :
                i \in {j \in DOMAIN last.normalized : Recognized(last.normalized[j])}}
FirstTypedAs(y) ==
    CHOOSE i \in DOMAIN last.normalized :
        /\ Recognized(last.normalized[i]) /\ Image(last.normalized[i]) = y
        /\ \A j \in 1..(i - 1) :
             ~(Recognized(last.normalized[j]) /\ Image(last.normalized[j]) = y)
InputPositions(y) ==
    {i \in DOMAIN last.normalized :
        last.normalized[i] = y \/ (Recognized(last.normalized[i]) /\ Image(last.normalized[i]) = y)}
Unrecognized(x) == ~HasQuote(x) /\ ~Advertised(x)

C20_UnrecognizedReturned ==
    (ValidateEnded /\ ~last.from_cache)
    => \A x \in Elements(last.normalized) :
         Unrecognized(x) => x \in Elements(last.result)

\* C20, amended: a ticker the provider does not recognize is returned, as its
\* normalized symbol, when the provider is not consulted (smoke mode) or
\* fails; when the provider answers, the ticker is left out of the result.
C20_UnrecognizedReturnedWhenUnconfirmed ==
    (ValidateEnded /\ ~last.from_cache)
    => \A x \in Elements(last.normalized) :
         Unrecognized(x)
         => IF ProviderAnswered THEN x \notin Elements(last.result)
            ELSE x \in Elements(last.result) /\ last.result = last.normalized

\* BAD was typed, the provider's symbols read raised, and BAD is returned
C20_Witness ==
    /\ ProviderFailed
    /\ last.provider.symbols.t = "raises"
    /\ "BAD" \in Elements(last.normalized)
    /\ Unrecognized("BAD")
    /\ "BAD" \in Elements(last.result)

\* C21: the list validate_tickers returns holds no two symbols that are equal
\* ignoring case, whichever way the call returned.
C21_NoDuplicateSymbols ==
    ValidateEnded
    => \A i, j \in DOMAIN last.result :
         i # j => Upper(last.result[i]) # Upper(last.result[j])

\* the provider named AAPL for kko and for AAPL, in two spellings, and
\* advertised both; the result holds AAPL once
C21_Witness ==
    /\ ProviderAnswered
    /\ last.tickers = <<"kko", "AAPL">>
    /\ last.provider = LowercaseTicker
    /\ last.result = <<"AAPL", "KKO">>

\* C22: with a provider that answers the same way at every call and raises
\* nothing, every call of validate_tickers with the same input returns the
\* list its first call returned, with the result cache enabled or disabled.
C22_RepeatedCallsAgree ==
    ValidateEnded
    => /\ last.tickers \in DOMAIN seen.first
       /\ last.result = seen.first[last.tickers]

\* a repeated call that asks the provider again, caching now disabled, after
\* a call that had cached its result; the provider dropped or replaced a symbol
C22_Witness ==
    /\ ValidateEnded
    /\ last.constructed /\ ~last.from_cache
    /\ env.YF_DISABLE_CACHE = "1"
    /\ last.normalized \in DOMAIN VALIDATE_TICKER_CACHE
    /\ last.result # last.normalized
    /\ last.result = seen.first[last.tickers]

\* the rows of a tabular section that are labelled with the ticker
RowsOf(section, ticker) == {i \in DOMAIN section.index : section.index[i] = ticker}

\* C23: _safe_section returns the ticker's row of a tabular section, the
\* record of a single record labelled with the ticker, the value under the
\* ticker key of a keyed section when that value is a mapping, and the empty
\* mapping in every other case.
C23_SafeSectionByShape ==
    last.op = "_safe_section"
    => LET section == last.section
           ticker == last.ticker
       IN  CASE section.t = "DataFrame" /\ Cardinality(RowsOf(section, ticker)) = 1
                  -> \E i \in RowsOf(section, ticker) : last.result = section.rows[i]
             [] section.t = "Series" /\ section.name = ticker
                  -> last.result = section.data
             [] /\ section.t = "dict"
                /\ ticker \in DOMAIN section.v
                /\ section.v[ticker].t = "dict"
                  -> last.result = section.v[ticker].v
             [] OTHER -> last.result = EmptyMap

\* the round trip of the spec: a tabular section with a row for AAPL holding
\* trailingPE = 30, asked for AAPL
C23_Witness ==
    /\ last.op = "_safe_section"
    /\ last.section.t = "DataFrame"
    /\ last.section.index = <<"AAPL", "MSFT">>
    /\ last.ticker = "AAPL"
    /\ last.result = DataA
    /\ last.result["trailingPE"] = PyInt(30)

\* the calls of the Metric Engine, and what ensure_data_available was given
Computed == last.op = "compute_metrics"
Ensured == last.op = "ensure_data_available"
EmptySections == {name \in DOMAIN last.sections : last.sections[name] = EmptyMap}
AllNull(metrics) == \A label \in DOMAIN metrics : metrics[label] = PyNone
FieldOf(section, field) ==
    Get(Get(last.sections, section, EmptyMap), field, PyNone)

\* C24: compute_metrics raises exactly when each of the 21 derived values is
\* null and otherwise returns the metric set; ensure_data_available raises
\* 'No metrics available' when no section is empty and every metric is null.
C24_AllNullIsHardStop ==
    /\ Computed
       => /\ Cardinality(DOMAIN DerivedMetrics(last.sections)) = 21
          /\ (last.result.t = "raises") = AllNull(DerivedMetrics(last.sections))
          /\ last.result.t = "raises" => last.result.message = "No metrics available"
          /\ last.result.t = "returns" => last.result.value = DerivedMetrics(last.sections)
    /\ (Ensured /\ EmptySections = {} /\ AllNull(last.metrics))
       => /\ last.result.t = "raises"
          /\ last.result.message = "No metrics available from Yahoo Finance"

\* compute_metrics raised for a bundle without an empty section: operating
\* cash flow is there, and the share count is zero
C24_Witness ==
    /\ Computed
    /\ last.result.t = "raises"
    /\ \A name \in CoreSet : last.sections[name] # EmptyMap
    /\ FieldOf("financial_data", "operatingCashflow") = PyInt(10)
    /\ FieldOf("key_stats", "sharesOutstanding") = PyInt(0)

\* C25: ensure_data_available raises whenever a section passed to it is
\* empty, whatever the metrics are, and the message names every empty section.
C25_EmptySectionRaises ==
    (Ensured /\ EmptySections # {})
    => /\ last.result.t = "raises"
       /\ last.result.message = "No data found: missing sections"
       /\ Elements(last.result.names) = EmptySections

\* the six core sections are empty, a metric has a value, and the six are named
C25_Witness ==
    /\ Ensured
    /\ EmptySections = CoreSet
    /\ ~AllNull(last.metrics)
    /\ last.result.t = "raises"
    /\ Len(last.result.names) = 6

\* C26: with no empty section and a metric that is not null,
\* ensure_data_available does not raise, whichever critical fields are missing.
C26_MissingFieldsAreWarnings ==
    (Ensured /\ EmptySections = {} /\ ~AllNull(last.metrics))
    => last.result.t = "returns"

\* C27: with key_stats.marketCap null, a market capitalization in price or
\* summary_detail, and total revenue and total debt present,
\* ensure_data_available raises nothing.
C27_MarketCapFallback ==
    ( /\ Ensured /\ EmptySections = {} /\ ~AllNull(last.metrics)
      /\ FieldOf("key_stats", "marketCap") = PyNone
      /\ \/ FieldOf("price", "marketCap") # PyNone
         \/ FieldOf("summary_detail", "marketCap") # PyNone
      /\ FieldOf("financial_data", "totalRevenue") # PyNone
      /\ FieldOf("financial_data", "totalDebt") # PyNone )
    => last.result.t = "returns"

\* C28: with no empty section, a metric that is not null, and
\* key_stats.marketCap, financial_data.totalRevenue and
\* financial_data.totalDebt null, ensure_data_available raises 'Missing
\* required fields' and names the three.
C28_MissingFieldsRaise ==
    ( /\ Ensured /\ EmptySections = {} /\ ~AllNull(last.metrics)
      /\ FieldOf("key_stats", "marketCap") = PyNone
      /\ FieldOf("financial_data", "totalRevenue") = PyNone
      /\ FieldOf("financial_data", "totalDebt") = PyNone )
    => /\ last.result.t = "raises"
       /\ last.result.message = "Missing required fields"
       /\ last.result.names = <<"market cap", "total revenue", "total debt">>

\* the sections and the metrics of test_ensure_data_available_requires_metrics_and_critical_fields
C28_Witness ==
    /\ Ensured /\ EmptySections = {}
    /\ last.metrics = ("P/E Ratio" :> PyInt(15)) @@ ("Current Ratio" :> PyNone)
    /\ FieldOf("key_stats", "marketCap") = PyNone
    /\ FieldOf("financial_data", "totalRevenue") = PyNone
    /\ FieldOf("financial_data", "totalDebt") = PyNone
    /\ FieldOf("price", "marketCap") = PyNone
    /\ last.result.t = "raises"

\* C29: 'PEG Ratio' is key_stats.pegRatio when that has a value, and
\* summary_detail.pegRatio when key_stats.pegRatio is absent or null.
C29_PegRatioFallsBack ==
    (Computed /\ last.result.t = "returns")
    => last.result.value["PEG Ratio"] =
         IF FieldOf("key_stats", "pegRatio") # PyNone
         THEN FieldOf("key_stats", "pegRatio")
         ELSE FieldOf("summary_detail", "pegRatio")

\* the Retry-After header of the call, whatever the case of its name
RetryAfterHeader ==
    LET keys == {k \in DOMAIN last.headers : LowerHeader(k) = "retry-after"} IN
    IF keys = {} THEN None ELSE Some(last.headers[CHOOSE k \in keys : TRUE])

\* C30: the hint is the integer of the Retry-After header; else the seconds
\* from now to the header's date, at least zero; else the retry_after or
\* retryAfter field of the payload; else none.  A header that gives no value
\* leaves the payload to be consulted.
C30_RetryAfterSources ==
    last.op = "_parse_retry_after"
    => last.result =
         IF ~IsNone(RetryAfterHeader) /\ RetryAfterHeader[1].t = "int"
         THEN Some(RetryAfterHeader[1].v)
         ELSE IF /\ ~IsNone(RetryAfterHeader) /\ RetryAfterHeader[1].t = "isodate"
                 /\ RetryAfterHeader[1].aware
         THEN Some(Max(0, RetryAfterHeader[1].v - now))
         ELSE IF last.payload.t = "dict" THEN PayloadHint(last.payload)
         ELSE None

-----------------------------------------------------------------------------
(* Properties of the read loop of fetch_ticker_sections. *)

\* the core sections a call made now has to read, in read order
MissingNow == SelectSeq(CoreSections, LAMBDA s : ~ValidlyCached(s))
\* a call made now is stopped neither by smoke mode nor by a cooldown
ReachesReads ==
    /\ ~is_smoke_mode(env)
    /\ ~(CooldownActive(RATE_LIMIT_COOLDOWNS, now) /\ MissingNow # <<>>)
\* the sections whose read failed in the call that just ended
FailedSections == {last.failed[i][1] : i \in DOMAIN last.failed}

\* C31: a fetch that is not short-circuited and has a client reads every core
\* section missing from the cache exactly once, in the fixed order, whether or
\* not earlier reads of the same fetch failed; a failed section is returned
\* empty, the others keep their fetched values, and cached sections are served
\* without being read.
C31_MissingSectionsReadInOrder ==
    [][(FetchStep /\ ReachesReads)
       => /\ last'.reads = MissingNow
          /\ last'.outcome = "returned"
          /\ \A s \in CoreSet :
                last'.bundle[s] =
                    IF ValidlyCached(s) THEN CACHED_SECTIONS[<<Ticker, s>>].payload
                    ELSE IF s \in FailedSections' THEN EmptyMap
                    ELSE _safe_section(ReadA.section, Ticker)]_vars

\* the error detail that the failed read of a section leaves: the captured
\* detail, its rate-limit record updated by the recording
DetailOfFailure(exc, t) ==
    RecordIfRateLimited(_capture_error_details(exc, t), <<>>, t).details

\* C32: when section reads fail in a fetch, the bundle's error is exactly the
\* error detail of the first failing section in read order, whatever the
\* later failures are; it is the empty mapping when no read failed.
C32_FirstErrorWins ==
    [][(FetchStep /\ ReachesReads /\ last'.outcome = "returned")
       => last'.bundle.error =
            IF last'.failed = <<>> THEN EmptyMap
            ELSE DetailOfFailure(last'.failed[1][2], now)]_vars

\* two reads failed differently, the first without a rate limit, and the
\* bundle reports the first
C32_Witness ==
    /\ FetchReturned
    /\ Len(last.failed) = 2
    /\ last.failed[1] = <<"summary_detail", Exc500>>
    /\ last.failed[2] = <<"price", Exc429>>
    /\ last.bundle.error = DetailOfFailure(Exc500, last.at)
    /\ "rate_limit" \notin DOMAIN last.bundle.error

\* the failures whose response is a rate-limiting one: status 429 or 503, or a
\* retry hint in the headers or the payload
Qualifying == {Exc429, Exc503, ExcHint, ExcNegative, ExcHuge}
\* the host whose cooldown a failure concerns, and the seconds it asks for
HostOf(exc) ==
    IF IsNone(exc.response[1].url) THEN "yahoo_finance" ELSE exc.response[1].url[1]
SecondsOf(exc) ==
    CASE exc = Exc429 -> 2
      [] exc = ExcHint -> 1
      [] exc = ExcNegative -> -1
      [] exc = ExcHuge -> HugeSeconds
      [] OTHER -> _DEFAULT_RATE_LIMIT_SECONDS

\* C33: a failed read installs a cooldown for its host if and only if its
\* error detail qualifies as rate limiting; when no failed read of a fetch
\* qualifies the tracker is left as it was and the failure is reported in
\* the bundle's error.
C33_CooldownIffRateLimited ==
    [][(FetchStep /\ ReachesReads)
       => LET limited == {i \in DOMAIN last'.failed : last'.failed[i][2] \in Qualifying}
          IN  /\ \A i \in limited :
                    /\ HostOf(last'.failed[i][2]) \in Hosts(RATE_LIMIT_COOLDOWNS')
                    /\ \E j \in limited :
                          /\ HostOf(last'.failed[j][2]) = HostOf(last'.failed[i][2])
                          /\ ResumeAt(RATE_LIMIT_COOLDOWNS', HostOf(last'.failed[i][2]))
                                = now + SecondsOf(last'.failed[j][2])
              /\ limited = {}
                    => /\ RATE_LIMIT_COOLDOWNS' = RATE_LIMIT_COOLDOWNS
                       /\ last'.failed # <<>>
                            => /\ last'.outcome = "returned"
                               /\ last'.bundle.error # EmptyMap
                               /\ "rate_limit" \notin DOMAIN last'.bundle.error]_vars

-----------------------------------------------------------------------------
(* Properties of the buybacks signal. *)

\* the section a read gave: empty when it failed
SectionRead(read) ==
    IF read.t = "raises" THEN EmptyMap ELSE _safe_section(read.section, Ticker)

\* C34: when buybacks is not served from the cache, the fetch derives it as
\* (latest sharesOutstanding < earliest sharesOutstanding) only if the price
\* history is non-empty and key_stats.sharesOutstanding is a series of at
\* least two points, and as null otherwise; a failed history read gives null
\* and leaves the bundle's error and its six sections as the section reads
\* left them; the derived value, null included, is written to the cache.
C34_BuybacksDerivation ==
    [][(/\ FetchStep
        /\ ReachesReads
        /\ ~ValidlyCached("buybacks")
        /\ last'.outcome = "returned")
       => LET shares == Get(last'.bundle.key_stats, "sharesOutstanding", PyNone)
              history == last'.history
              derivable == /\ history.t = "ok"
                           /\ ~history.empty
                           /\ shares.t = "list"
                           /\ Len(shares.v) >= 2
              buybacks == last'.bundle.buybacks
          IN  /\ last'.history_read
              /\ IF derivable /\ "close" \in history.columns
                 THEN buybacks = PyBool(shares.v[Len(shares.v)] < shares.v[1])
                 ELSE buybacks = PyNone
              /\ last'.bundle.error =
                    IF last'.failed = <<>> THEN EmptyMap
                    ELSE DetailOfFailure(last'.failed[1][2], now)
              /\ \A s \in CoreSet :
                    last'.bundle[s] =
                        IF ValidlyCached(s) THEN CACHED_SECTIONS[<<Ticker, s>>].payload
                        ELSE IF s = "key_stats" THEN SectionRead(last'.key_stats_read)
                        ELSE SectionRead(ReadA)
              /\ _cache_enabled(env)
                    => /\ <<Ticker, "buybacks">> \in DOMAIN CACHED_SECTIONS'
                       /\ CACHED_SECTIONS'[<<Ticker, "buybacks">>].payload
                            = ("value" :> buybacks)]_vars

\* the history read failed in a call whose key_stats read had failed too:
\* buybacks is null, cached as null, and the error is that of key_stats
C34_Witness ==
    /\ FetchReturned
    /\ last.history_read
    /\ last.history = HistoryRaises
    /\ last.key_stats_read = Raises(Exc500)
    /\ last.bundle.buybacks = PyNone
    /\ last.bundle.error = DetailOfFailure(Exc500, last.at)
    /\ <<Ticker, "buybacks">> \in DOMAIN CACHED_SECTIONS
    /\ CACHED_SECTIONS[<<Ticker, "buybacks">>].payload = ("value" :> PyNone)

-----------------------------------------------------------------------------
(* Further properties of the Rate-Limit Tracker. *)

\* a step that is one _record_rate_limit, the host it concerns and the
\* seconds it installs
RecordStep == Idle /\ last'.op = "record"
RecordedHost == IF IsNone(last.host) THEN "yahoo_finance" ELSE last.host[1]
RecordedSeconds ==
    IF Truthy(last.retry_after) THEN last.retry_after[1] ELSE _DEFAULT_RATE_LIMIT_SECONDS

\* C35: after any record operation the host's cooldown expiry is never
\* earlier than it was before that operation (a record installs or extends
\* the cooldown).
C35_RecordNeverShortens ==
    [][RecordStep
       => (RecordedHost' \in Hosts(RATE_LIMIT_COOLDOWNS)
           => ResumeAt(RATE_LIMIT_COOLDOWNS', RecordedHost')
                >= ResumeAt(RATE_LIMIT_COOLDOWNS, RecordedHost'))]_vars

\* C35, amended: a record operation sets the host's cooldown expiry to the
\* time of the operation plus the record's retry-after seconds (the default
\* when it carries none or 0), whatever the expiry was before, and leaves the
\* other hosts' cooldowns alone; so the expiry is earlier than before exactly
\* when the new record's expiry is earlier than the old one.  A record whose
\* retry-after is out of the range of datetime raises and changes nothing.
C35_RecordOverwrites ==
    [][RecordStep
       => IF last'.raised
          THEN /\ Overflows(now + RecordedSeconds')
               /\ RATE_LIMIT_COOLDOWNS' = RATE_LIMIT_COOLDOWNS
          ELSE /\ RecordedHost' \in Hosts(RATE_LIMIT_COOLDOWNS')
               /\ ResumeAt(RATE_LIMIT_COOLDOWNS', RecordedHost') = now + RecordedSeconds'
               /\ \A h \in Hosts(RATE_LIMIT_COOLDOWNS) \ {RecordedHost'} :
                     /\ h \in Hosts(RATE_LIMIT_COOLDOWNS')
                     /\ ResumeAt(RATE_LIMIT_COOLDOWNS', h)
                          = ResumeAt(RATE_LIMIT_COOLDOWNS, h)]_vars

\* a record asking for one second was made for a host whose cooldown still
\* had more to run: the expiry moved earlier
C35_Witness ==
    /\ last.op = "record"
    /\ last.retry_after = Some(1)
    /\ RecordedHost \in Hosts(last.before)
    /\ ResumeAt(last.before, RecordedHost) > now + 1
    /\ ResumeAt(RATE_LIMIT_COOLDOWNS, RecordedHost) = now + 1

-----------------------------------------------------------------------------
(* Further properties of the Ticker Validator. *)

\* y is a requested symbol or the canonical symbol of a requested one
FromBatch(y) ==
    \/ y \in Elements(last.normalized)
    \/ \E x \in Elements(last.normalized) : HasQuote(x) /\ y = Upper(CanonicalOf(x))
\* the provider answered, confirmed none of the requested symbols and
\* advertises some symbol
NoneConfirmed ==
    /\ ProviderAnswered
    /\ FirstPass = {}
    /\ last.provider.symbols.t = "ok"
    /\ last.provider.symbols.value.t = "list"
    /\ last.provider.symbols.value.v # <<>>

\* C36: every symbol validate_tickers returns is a requested symbol or the
\* canonical symbol the provider gives for a requested one; no advertised
\* symbol unrelated to the batch is added, also when none was confirmed.
C36_NeverInvents ==
    (ValidateEnded /\ ~last.from_cache)
    => \A y \in Elements(last.result) : FromBatch(y)

\* C36, amended: when the provider confirmed at least one requested symbol,
\* or did not answer, every returned symbol is a requested one or the
\* canonical symbol of a requested one; when it answered and confirmed none,
\* the result is exactly the first symbol it advertises, in upper case,
\* whether or not that symbol belongs to the batch.
C36_InventsOnlyWhenNoneConfirmed ==
    (ValidateEnded /\ ~last.from_cache)
    => IF NoneConfirmed
       THEN last.result = <<Upper(last.provider.symbols.value.v[1])>>
       ELSE \A y \in Elements(last.result) : FromBatch(y)

\* a blank-only request against the provider of the repository's test: none
\* of AAPL, KO, MSFT was requested, and AAPL is returned
C36_Witness ==
    /\ ValidateEnded
    /\ ~last.from_cache
    /\ last.provider = DummyTicker
    /\ last.normalized = <<" ">>
    /\ NoneConfirmed
    /\ last.result = <<"AAPL">>

-----------------------------------------------------------------------------
(* Properties of cache_info and of the passing of cooldowns. *)

\* the requested entries a call made now finds in the cache
HitsNow == {s \in CoreSet \cup {"buybacks"} : ValidlyCached(s)}

\* C37: in every bundle that carries cache_info.served_from_cache the flag is
\* true exactly when the six core sections and buybacks were all cache hits
\* in that call, in which case the call constructed no client and read
\* neither a section nor the history; sections_cached is exactly the set of
\* cache hits.
C37_ServedFromCacheFlag ==
    [][(/\ FetchStep
        /\ last'.outcome = "returned"
        /\ "served_from_cache" \in DOMAIN last'.bundle.cache_info)
       => /\ last'.bundle.cache_info.served_from_cache
                <=> (HitsNow = CoreSet \cup {"buybacks"})
          /\ last'.bundle.cache_info.served_from_cache
                => /\ ~last'.client_constructed
                   /\ last'.reads = <<>>
                   /\ ~last'.history_read
          /\ last'.bundle.cache_info.sections_cached = HitsNow]_vars

\* the client constructor of the call that just ended was one that raises
CtorRaises == "ctor_raises" \in DOMAIN last

\* C38: once every recorded cooldown expiry is at or before the current time,
\* whatever the fetches since then did, a fetch with some core section not
\* validly cached is not short-circuited: it goes to the provider, reads each
\* such section when it has a client, and returns no "Rate limit active"
\* error.
C38_CooldownsEndPassively ==
    [][(/\ FetchStep
        /\ ~is_smoke_mode(env)
        /\ RATE_LIMIT_COOLDOWNS # <<>>
        /\ ~CooldownActive(RATE_LIMIT_COOLDOWNS, now)
        /\ MissingNow # <<>>)
       => /\ last'.given_client \/ last'.client_constructed
          /\ ~CtorRaises' => last'.reads = MissingNow
          /\ last'.outcome = "returned"
                => ~(/\ "message" \in DOMAIN last'.bundle.error
                     /\ last'.bundle.error.message = "Rate limit active")]_vars

-----------------------------------------------------------------------------
(* Properties of the validation-result cache. *)

\* a step that is one call of validate_tickers
ValidateStep == Idle /\ last'.op = "validate"

\* C39: a call that fails open after a provider error stores nothing in
\* VALIDATE_TICKER_CACHE, so the batch has no entry after it and a call for
\* a batch without entry contacts the provider; the cache changes only by
\* storing, for the batch, the result computed from a provider response, and
\* a stored result is returned for its batch without contacting the provider.
C39_FailOpenNotCached ==
    [][ValidateStep
       => LET batch == last'.normalized IN
          /\ ProviderFailed'
                => /\ last'.result = batch
                   /\ VALIDATE_TICKER_CACHE' = VALIDATE_TICKER_CACHE
                   /\ _cache_enabled(env) => batch \notin DOMAIN VALIDATE_TICKER_CACHE'
          /\ VALIDATE_TICKER_CACHE' # VALIDATE_TICKER_CACHE
                => /\ ProviderAnswered'
                   /\ VALIDATE_TICKER_CACHE'
                        = (batch :> last'.result) @@ VALIDATE_TICKER_CACHE
          /\ (ProviderAnswered' /\ _cache_enabled(env))
                => /\ batch \in DOMAIN VALIDATE_TICKER_CACHE'
                   /\ VALIDATE_TICKER_CACHE'[batch] = last'.result
          /\ (batch # <<>> /\ ~is_smoke_mode(env))
                => IF _cache_enabled(env) /\ batch \in DOMAIN VALIDATE_TICKER_CACHE
                   THEN /\ ~last'.constructed
                        /\ last'.result = VALIDATE_TICKER_CACHE[batch]
                   ELSE last'.constructed]_vars

\* with caching enabled the provider raised on the quote metadata: the typed
\* batch came back unconfirmed and has no entry, next to the stored result of
\* another batch
C39_Witness ==
    /\ ProviderFailed
    /\ _cache_enabled(env)
    /\ last.provider.quote_type.t = "raises"
    /\ last.normalized = <<"AAPL", "KKO", "MSFT", "BAD">>
    /\ last.result = last.normalized
    /\ last.normalized \notin DOMAIN VALIDATE_TICKER_CACHE
    /\ <<"KKO", "AAPL">> \in DOMAIN VALIDATE_TICKER_CACHE

-----------------------------------------------------------------------------
(* Properties of interleaved lookups and writes. *)

\* the lazy eviction of a lookup has just run
Evicted == last.op = "evict"
RemovedUnexpired ==
    /\ Evicted
    /\ ~IsNone(last.removed)
    /\ last.removed[1].expires_at > last.at

\* C40: when two fetches run interleaved, the lazy eviction of a lookup never
\* removes an entry that is unexpired at the moment of removal.
C40_EvictsOnlyExpired == Evicted => ~RemovedUnexpired

\* C40, amended: the eviction removes whatever entry is stored for the key at
\* that moment.  When no write for the key came between the lookup's read and
\* its eviction, what it removes is the stale entry it read (or nothing, when
\* another lookup removed it first) and is expired; it removes an unexpired
\* entry exactly when another thread stored one for the key in between.
C40_EvictsFreshOnlyAfterRace ==
    Evicted
    => /\ ~IsNone(last.read)
       /\ last.read[1].expires_at <= last.at
       /\ ~last.raced => last.removed \in {None, last.read}
       /\ RemovedUnexpired => last.raced /\ last.removed # last.read

\* a lookup read a stale entry, another thread stored a fresh one for the
\* same section, and the lookup's eviction removed the fresh one
C40_Witness ==
    /\ RemovedUnexpired
    /\ last.raced
    /\ <<Ticker, last.section>> \notin DOMAIN CACHED_SECTIONS


====
